---- MODULE Spec2Model ----
(***************************************************************************)
(* The per-batch decompression state machine of                            *)
(* tsl/src/nodes/decompress_chunk/compressed_batch.c: loading a compressed *)
(* tuple, the vectorized quals, the row-by-row advance with the Postgres   *)
(* qual, and the saving of the first tuple for batch sorted merge.         *)
(***************************************************************************)
EXTENDS Integers, Sequences, FiniteSets, TLC

VARIABLES
    chunk_state,       \* DecompressChunkState: the scan's static configuration
    batch_state,       \* DecompressBatchState
    first_tuple_slot,  \* the caller's slot of compressed_batch_save_first_tuple
    nfiltered1,        \* chunk_state->csstate instrumentation, InstrCountFiltered1
    error,             \* the message of the elog(ERROR)/Ensure that aborted the scan, or NoError
    batches_loaded,    \* history: compressed_batch_set_compressed_tuple calls so far
    emitted,           \* history: rows left in the output slot by this batch's calls
    pulls,             \* history: try_next calls made for row positions, per column
    predicate_calls,   \* history: calls of a vector predicate function in this batch's load
    saved_first,       \* history: whether this batch was started by save_first_tuple
    advance_calls,     \* history: compressed_batch_advance calls made on this batch
    nfiltered1_at_load, \* history: nfiltered1 when this batch was loaded
    qual_evals,        \* history: ExecQual evaluations made for this batch
    probe,             \* history: assertions failed and rows indexed in this batch
    driver,            \* the outer driver: the batches it feeds to the batch state
    planner            \* a call of apply_vectorized_agg_optimization: arguments and result

vars == << chunk_state, batch_state, first_tuple_slot, nfiltered1, error,
           batches_loaded, emitted, pulls, predicate_calls, saved_first,
           advance_calls, nfiltered1_at_load, qual_evals, probe, driver,
           planner >>

(***************************************************************************)
(* Bounds of the model.                                                    *)
(***************************************************************************)
\* rows of data a compressed column of one batch holds at most, and the
\* largest declared row count, when both compressed columns hold data
MaxRows == 2
\* the same when only the first compressed column holds data
MaxRowsNarrow == 3
\* the same for the drivers that load several batches into one batch state
MaxRowsReuse == 1
\* batches one batch state is loaded with by those drivers
MaxBatches == 2
\* calls of compressed_batch_advance a driver makes on a batch after the
\* call that exhausted it
MaxIdleCalls == 1
\* restrictions (baserestrictinfo) of a path's relation at most
MaxRestrictions == 2
\* expressions in the target of an aggregation path at most
MaxTargetExprs == 2

(***************************************************************************)
(* Datums.  A value of a slot or of a decompressed column is a Datum with  *)
(* its null flag; the Datum of a null is never read and is kept 0.         *)
(***************************************************************************)
NullDatum == [val |-> 0, isnull |-> TRUE]
Val(v) == [val |-> v, isnull |-> FALSE]

NoError == "none"
OutOfSync == "compressed column out of sync with batch counter"
CorruptLength == "the compressed data is corrupt: got a segment with length"
ColumnNotFound == "decompressed column not found in batch"
OnlyCompressed == "only compressed columns are supported in vectorized quals"
OnlyArrow == "only arrow columns are supported in vectorized quals"
PredicateNotFound == "vectorized predicate not found for postgres predicate"
NullConstant == "vectorized predicate called for a null value"

\* the attributes of the decompressed scan slot
OutputAttnos == 1 .. 3

(***************************************************************************)
(* The decompression iterator of one column (compression.h): try_next      *)
(* yields the values in order and then reports is_done, again and again.   *)
(* With reverse the iterator yields the rows of the batch last first.      *)
(***************************************************************************)
NoIterator == [isnull |-> TRUE, data |-> << >>, pos |-> 0]

ReverseSeq(s) == [i \in 1 .. Len(s) |-> s[Len(s) + 1 - i]]

tsl_get_decompression_iterator_init(value, reverse) ==
    [isnull |-> FALSE,
     data |-> IF reverse THEN ReverseSeq(value.rows) ELSE value.rows,
     pos |-> 0]

\* the DecompressResult of iterator->try_next
try_next_result(it) ==
    IF it.pos < Len(it.data)
    THEN [is_done |-> FALSE, is_null |-> it.data[it.pos + 1].isnull,
          val |-> it.data[it.pos + 1].val]
    ELSE [is_done |-> TRUE, is_null |-> FALSE, val |-> 0]

\* the iterator after iterator->try_next
try_next_iterator(it) ==
    IF it.pos < Len(it.data) THEN [it EXCEPT !.pos = it.pos + 1] ELSE it

(***************************************************************************)
(* Bulk decompression (DecompressAllFunction): the whole column as an      *)
(* ArrowArray of arrow->length rows, or nothing.  garbage is what a read   *)
(* behind the end of the values and validity buffers finds.                *)
(***************************************************************************)
NoArrow == [isnull |-> TRUE, length |-> 0, rows |-> << >>, garbage |-> NullDatum]

decompress_all(value) ==
    IF value.arrow_ok
    THEN [isnull |-> FALSE, length |-> Len(value.rows), rows |-> value.rows,
          garbage |-> value.garbage]
    ELSE NoArrow

\* arrow_values and arrow_validity read at one row
arrow_datum(arrow, row) ==
    IF row < arrow.length THEN arrow.rows[row + 1] ELSE arrow.garbage

\* arrow_row_is_valid on the bitmap of the vectorized quals
arrow_row_is_valid(bitmap, row) == bitmap[row + 1]

(***************************************************************************)
(* The vector predicates (vector_predicates.h).  A predicate ANDs into     *)
(* result, for each row of the vector, whether the row is valid and its    *)
(* value satisfies the comparison with the constant.                       *)
(***************************************************************************)
RegisteredOps == {">", "<"}

Compare(opno, v, c) ==
    CASE opno = ">" -> v > c
      [] opno = "<" -> v < c
      [] OTHER -> FALSE

\* whether get_vector_const_predicate(get_opcode(opno)) finds a predicate
get_vector_const_predicate(opno) == opno \in RegisteredOps

vector_const_predicate(opno, vector, constvalue, result) ==
    [i \in 1 .. Len(result) |->
        IF i <= vector.length
        THEN result[i] /\ ~vector.rows[i].isnull
                       /\ Compare(opno, vector.rows[i].val, constvalue)
        ELSE result[i]]

(***************************************************************************)
(* The scan's column descriptions.  The compressed columns come first in   *)
(* template_columns (they index batch_state->compressed_columns); the      *)
(* count and the sequence number column have no output attribute.          *)
(***************************************************************************)
CompressedColumn(attno, supported) ==
    [type |-> "COMPRESSED_COLUMN", output_attno |-> attno,
     compressed_scan_attno |-> attno, bulk_decompression_supported |-> supported]
SegmentbyColumn ==
    [type |-> "SEGMENTBY_COLUMN", output_attno |-> 3,
     compressed_scan_attno |-> 3, bulk_decompression_supported |-> FALSE]
CountColumn ==
    [type |-> "COUNT_COLUMN", output_attno |-> 0,
     compressed_scan_attno |-> 4, bulk_decompression_supported |-> FALSE]
SequenceNumColumn ==
    [type |-> "SEQUENCE_NUM_COLUMN", output_attno |-> 0,
     compressed_scan_attno |-> 5, bulk_decompression_supported |-> FALSE]

num_total_columns(cs) == Len(cs.template_columns)
num_compressed_columns(cs) ==
    Cardinality({i \in 1 .. Len(cs.template_columns) :
                    cs.template_columns[i].type = "COMPRESSED_COLUMN"})

\* slot_getattr on the compressed slot, for a compressed column
compressed_attr(tuple, attno) == tuple.data[attno]

\* getmissingattr on the tuple descriptor of the decompressed scan slot
getmissingattr(cs, attno) == cs.missing[attno]

(***************************************************************************)
(* make_single_value_arrow: the default value of a column as an ArrowArray *)
(* of one row; the validity bit stays 0 and the value 0 for a null.        *)
(***************************************************************************)
\* a variant that marks the row valid and reads the datum also for a null
make_single_value_arrow_valid(datum) ==
    [isnull |-> FALSE, length |-> 1, rows |-> << Val(datum.val) >>,
     garbage |-> NullDatum]

make_single_value_arrow(datum) ==
    [isnull |-> FALSE, length |-> 1,
     rows |-> << IF datum.isnull THEN NullDatum ELSE Val(datum.val) >>,
     garbage |-> NullDatum]

(***************************************************************************)
(* apply_vector_quals.  m is the state the load works on: the batch state, *)
(* the error raised so far and the predicate calls made.                   *)
(***************************************************************************)
NoBitmap == [isnull |-> TRUE, bits |-> << >>]

\* the bitmap of bitmap_bytes bytes after memset 0xFF, one bit per row
AllOnes(n) == [isnull |-> FALSE, bits |-> [i \in 1 .. n |-> TRUE]]
AllZeros(n) == [isnull |-> FALSE, bits |-> [i \in 1 .. n |-> FALSE]]
\* a variant that starts the bitmap from all zeros
vector_qual_bitmap_zeroed(total_batch_rows) == AllZeros(total_batch_rows)
vector_qual_bitmap_init(total_batch_rows) == AllOnes(total_batch_rows)

\* the loop that finds the column the Var refers to: the index it stops at
find_column_index(cs, varattno) ==
    LET hits == {i \in 1 .. num_total_columns(cs) :
                    cs.template_columns[i].output_attno = varattno}
    IN  IF hits = {} THEN num_total_columns(cs) + 1
        ELSE CHOOSE i \in hits : \A j \in hits : i <= j

Raise(m, msg) == [m EXCEPT !.err = msg]

\* a variant that drops the result of a predicate on a default value
default_value_ignored(bitmap, default_value_predicate_result) == bitmap

\* the result of a predicate on a default value, applied to the whole batch
default_value_result(bitmap, default_value_predicate_result) ==
    IF ~default_value_predicate_result[1]
    THEN AllZeros(Len(bitmap.bits))
    ELSE bitmap

\* a variant that calls the predicate with a null constant
apply_vector_qual_null_constant(cs, m, oe) ==
    LET column_index == find_column_index(cs, oe.varattno)
    IN
    IF column_index > num_total_columns(cs) THEN Raise(m, ColumnNotFound)
    ELSE IF cs.template_columns[column_index].type # "COMPRESSED_COLUMN"
    THEN Raise(m, OnlyCompressed)
    ELSE
    LET column_values == m.bs.compressed_columns[column_index]
        isdefault == column_values.arrow.isnull
        attr == cs.template_columns[column_index].output_attno
        vector == IF isdefault
                  THEN make_single_value_arrow(
                           m.bs.decompressed_scan_slot.tts_values[attr])
                  ELSE column_values.arrow
        predicate_result == IF isdefault THEN << TRUE >>
                            ELSE m.bs.vector_qual_result.bits
        computed == vector_const_predicate(oe.opno, vector, oe.constvalue,
                                           predicate_result)
        call == [varattno |-> oe.varattno, length |-> vector.length,
                 isdefault |-> isdefault, isnull |-> vector.rows # << >> /\ isdefault
                                                     /\ vector.rows[1].isnull]
    IN
    IF ~column_values.iterator.isnull THEN Raise(m, OnlyArrow)
    ELSE IF ~get_vector_const_predicate(oe.opno) THEN Raise(m, PredicateNotFound)
    ELSE [m EXCEPT
            !.calls = Append(m.calls, call),
            !.bs.vector_qual_result =
                IF isdefault
                THEN default_value_result(m.bs.vector_qual_result, computed)
                ELSE [isnull |-> FALSE, bits |-> computed]]

apply_vector_qual(cs, m, oe) ==
    LET column_index == find_column_index(cs, oe.varattno)
    IN
    IF column_index > num_total_columns(cs) THEN Raise(m, ColumnNotFound)
    ELSE IF cs.template_columns[column_index].type # "COMPRESSED_COLUMN"
    THEN Raise(m, OnlyCompressed)
    ELSE
    LET column_values == m.bs.compressed_columns[column_index]
        isdefault == column_values.arrow.isnull
        attr == cs.template_columns[column_index].output_attno
        vector == IF isdefault
                  THEN make_single_value_arrow(
                           m.bs.decompressed_scan_slot.tts_values[attr])
                  ELSE column_values.arrow
        predicate_result == IF isdefault THEN << TRUE >>
                            ELSE m.bs.vector_qual_result.bits
        computed == vector_const_predicate(oe.opno, vector, oe.constvalue,
                                           predicate_result)
        call == [varattno |-> oe.varattno, length |-> vector.length,
                 isdefault |-> isdefault, isnull |-> vector.rows # << >> /\ isdefault
                                                     /\ vector.rows[1].isnull]
    IN
    IF ~column_values.iterator.isnull THEN Raise(m, OnlyArrow)
    ELSE IF ~get_vector_const_predicate(oe.opno) THEN Raise(m, PredicateNotFound)
    ELSE IF oe.constisnull THEN Raise(m, NullConstant)
    ELSE [m EXCEPT
            !.calls = Append(m.calls, call),
            !.bs.vector_qual_result =
                IF isdefault
                THEN default_value_result(m.bs.vector_qual_result, computed)
                ELSE [isnull |-> FALSE, bits |-> computed]]

RECURSIVE apply_vector_quals_from(_, _, _)
apply_vector_quals_from(cs, m, k) ==
    IF k > Len(cs.vectorized_quals) \/ m.err # NoError THEN m
    ELSE apply_vector_quals_from(
             cs, apply_vector_qual(cs, m, cs.vectorized_quals[k]), k + 1)

apply_vector_quals(cs, m) ==
    IF cs.vectorized_quals = << >> THEN m
    ELSE apply_vector_quals_from(
             cs,
             [m EXCEPT !.bs.vector_qual_result =
                           vector_qual_bitmap_init(m.bs.total_batch_rows)],
             1)

(***************************************************************************)
(* compressed_batch_set_compressed_tuple, column by column.                *)
(***************************************************************************)
\* the value width get_typlen gives for the columns' type, int4
Int4Bytes == 4

ResetColumnValues(attno) ==
    [iterator |-> NoIterator, arrow |-> NoArrow, value_bytes |-> -1,
     output_attno |-> attno]

\* total_batch_rows after a source that reports `length` rows (lines 379-386
\* and 436-443): taken over when still 0, an error when different
sync_total_batch_rows(m, length) ==
    IF m.bs.total_batch_rows = 0
    THEN [m EXCEPT !.bs.total_batch_rows = length]
    ELSE IF m.bs.total_batch_rows # length
    THEN Raise(m, OutOfSync)
    ELSE m

\* a variant that decompresses in bulk whatever the scan and the column allow
set_compressed_column_always_bulk(cs, m, tuple, i) ==
    LET column_description == cs.template_columns[i]
        attr == column_description.output_attno
        value == compressed_attr(tuple, column_description.compressed_scan_attno)
        m0 == [m EXCEPT !.bs.compressed_columns[i] = ResetColumnValues(attr)]
        arrow == decompress_all(value)
    IN
    IF value.isnull
    THEN [m0 EXCEPT !.bs.decompressed_scan_slot.tts_values[attr] =
                        getmissingattr(cs, attr)]
    ELSE IF ~arrow.isnull
    THEN LET m1 == sync_total_batch_rows(m0, arrow.length)
         IN  IF m1.err # NoError THEN m1
             ELSE [m1 EXCEPT !.bs.compressed_columns[i].arrow = arrow,
                             !.bs.compressed_columns[i].value_bytes = Int4Bytes]
    ELSE [m0 EXCEPT !.bs.compressed_columns[i].iterator =
                        tsl_get_decompression_iterator_init(value, cs.reverse)]

\* a variant that leaves the column's iterator and array of the batch before
set_compressed_column_unreset(cs, m, tuple, i) ==
    LET column_description == cs.template_columns[i]
        attr == column_description.output_attno
        value == compressed_attr(tuple, column_description.compressed_scan_attno)
        m0 == [m EXCEPT !.bs.compressed_columns[i].output_attno = attr]
        arrow == IF cs.enable_bulk_decompression
                    /\ column_description.bulk_decompression_supported
                 THEN decompress_all(value)
                 ELSE NoArrow
    IN
    IF value.isnull
    THEN [m0 EXCEPT !.bs.decompressed_scan_slot.tts_values[attr] =
                        getmissingattr(cs, attr)]
    ELSE IF ~arrow.isnull
    THEN LET m1 == sync_total_batch_rows(m0, arrow.length)
         IN  IF m1.err # NoError THEN m1
             ELSE [m1 EXCEPT !.bs.compressed_columns[i].arrow = arrow,
                             !.bs.compressed_columns[i].value_bytes = Int4Bytes]
    ELSE [m0 EXCEPT !.bs.compressed_columns[i].iterator =
                        tsl_get_decompression_iterator_init(value, cs.reverse)]

set_compressed_column(cs, m, tuple, i) ==
    LET column_description == cs.template_columns[i]
        attr == column_description.output_attno
        value == compressed_attr(tuple, column_description.compressed_scan_attno)
        m0 == [m EXCEPT !.bs.compressed_columns[i] = ResetColumnValues(attr)]
        arrow == IF cs.enable_bulk_decompression
                    /\ column_description.bulk_decompression_supported
                 THEN decompress_all(value)
                 ELSE NoArrow
    IN
    IF value.isnull
    THEN [m0 EXCEPT !.bs.decompressed_scan_slot.tts_values[attr] =
                        getmissingattr(cs, attr)]
    ELSE IF ~arrow.isnull
    THEN LET m1 == sync_total_batch_rows(m0, arrow.length)
         IN  IF m1.err # NoError THEN m1
             ELSE [m1 EXCEPT !.bs.compressed_columns[i].arrow = arrow,
                             !.bs.compressed_columns[i].value_bytes = Int4Bytes]
    ELSE [m0 EXCEPT !.bs.compressed_columns[i].iterator =
                        tsl_get_decompression_iterator_init(value, cs.reverse)]

set_segmentby_column(cs, m, tuple, i) ==
    [m EXCEPT !.bs.decompressed_scan_slot.tts_values[
                   cs.template_columns[i].output_attno] = tuple.segmentby]

\* a variant that takes the declared count as it is
set_count_unvalidated(cs, m, tuple, i) == sync_total_batch_rows(m, tuple.count)

set_count_column(cs, m, tuple, i) ==
    LET count_value == tuple.count
    IN  IF count_value <= 0 THEN Raise(m, CorruptLength)
        ELSE sync_total_batch_rows(m, count_value)

set_column(cs, m, tuple, i) ==
    LET type == cs.template_columns[i].type
    IN  CASE type = "COMPRESSED_COLUMN" -> set_compressed_column(cs, m, tuple, i)
          [] type = "SEGMENTBY_COLUMN" -> set_segmentby_column(cs, m, tuple, i)
          [] type = "COUNT_COLUMN" -> set_count_column(cs, m, tuple, i)
          [] OTHER -> m

RECURSIVE set_columns_from(_, _, _, _)
set_columns_from(cs, m, tuple, i) ==
    IF i > num_total_columns(cs) \/ m.err # NoError THEN m
    ELSE set_columns_from(cs, set_column(cs, m, tuple, i), tuple, i + 1)

\* a variant that keeps the cursor of the previous batch
reset_keeping_cursor(bs, tuple) ==
    [bs EXCEPT !.per_batch_context = TRUE,
               !.compressed_slot = tuple,
               !.total_batch_rows = 0]

\* lines 305-312: the tuple is copied and the counters are reset
reset_batch_counters(bs, tuple) ==
    [bs EXCEPT !.per_batch_context = TRUE,
               !.compressed_slot = tuple,
               !.total_batch_rows = 0,
               !.next_batch_row = 0]

compressed_batch_set_compressed_tuple(cs, bs, tuple) ==
    LET m0 == [bs |-> reset_batch_counters(bs, tuple), err |-> NoError,
               calls |-> << >>]
        m1 == set_columns_from(cs, m0, tuple, 1)
    IN  IF m1.err # NoError THEN m1 ELSE apply_vector_quals(cs, m1)

(***************************************************************************)
(* The row position in the arrow arrays and in the bitmap of the quals.    *)
(***************************************************************************)
\* a variant that forgets the - 1 of the reverse scan
arrow_row_off_by_one(cs, bs) ==
    IF cs.reverse THEN bs.total_batch_rows - bs.next_batch_row
    ELSE bs.next_batch_row

\* compressed_batch_make_next_tuple, lines 475-478
make_next_tuple_arrow_row(cs, bs) ==
    IF cs.reverse THEN bs.total_batch_rows - 1 - bs.next_batch_row
    ELSE bs.next_batch_row

\* compressed_batch_vector_qual, lines 558-560
vector_qual_arrow_row(cs, bs) ==
    IF cs.reverse THEN bs.total_batch_rows - 1 - bs.next_batch_row
    ELSE bs.next_batch_row

(***************************************************************************)
(* compressed_batch_make_next_tuple.  n is the state a call works on: the  *)
(* batch state, the error raised, the filtered-rows counter, the caller's  *)
(* first tuple slot and the history of the batch.                          *)
(***************************************************************************)
\* one try_next of column i, made for a row position
pull_iterator(n, i) ==
    [n EXCEPT !.bs.compressed_columns[i].iterator = try_next_iterator(@),
              !.pulls[i] = @ + 1]

\* a variant that sets the output position of a column without data to null
make_next_tuple_column_nulling(cs, n, i) ==
    LET column_values == n.bs.compressed_columns[i]
        attr == column_values.output_attno
        result == try_next_result(column_values.iterator)
    IN
    IF ~column_values.iterator.isnull
    THEN IF result.is_done
         THEN Raise(pull_iterator(n, i), OutOfSync)
         ELSE [pull_iterator(n, i) EXCEPT
                  !.bs.decompressed_scan_slot.tts_values[attr] =
                      [val |-> result.val, isnull |-> result.is_null]]
    ELSE IF ~column_values.arrow.isnull
    THEN [n EXCEPT !.bs.decompressed_scan_slot.tts_values[attr] =
                       arrow_datum(column_values.arrow,
                                   make_next_tuple_arrow_row(cs, n.bs))]
    ELSE [n EXCEPT !.bs.decompressed_scan_slot.tts_values[attr] = NullDatum]

make_next_tuple_column(cs, n, i) ==
    LET column_values == n.bs.compressed_columns[i]
        attr == column_values.output_attno
        result == try_next_result(column_values.iterator)
    IN
    IF ~column_values.iterator.isnull
    THEN IF result.is_done
         THEN Raise(pull_iterator(n, i), OutOfSync)
         ELSE [pull_iterator(n, i) EXCEPT
                  !.bs.decompressed_scan_slot.tts_values[attr] =
                      [val |-> result.val, isnull |-> result.is_null]]
    ELSE IF ~column_values.arrow.isnull
    THEN [n EXCEPT !.bs.decompressed_scan_slot.tts_values[attr] =
                       arrow_datum(column_values.arrow,
                                   make_next_tuple_arrow_row(cs, n.bs))]
    ELSE n

RECURSIVE make_next_tuple_from(_, _, _)
make_next_tuple_from(cs, n, i) ==
    IF i > num_compressed_columns(cs) \/ n.err # NoError THEN n
    ELSE make_next_tuple_from(cs, make_next_tuple_column(cs, n, i), i + 1)

\* a variant that leaves the slot marked empty
store_nothing(slot) == slot

\* ExecStoreVirtualTuple when the slot is empty
ExecStoreVirtualTuple(slot) == [slot EXCEPT !.empty = FALSE]
\* a variant that leaves the slot as it is
clear_nothing(slot) == slot

ExecClearTuple(slot) == [slot EXCEPT !.empty = TRUE]

\* the history of the Asserts of lines 472-473 and 555-556
asserted_row_in_batch(n) ==
    [n EXCEPT !.probe.failed =
                 \/ @
                 \/ ~(n.bs.total_batch_rows > 0)
                 \/ ~(n.bs.next_batch_row < n.bs.total_batch_rows)]

\* the history of the rows at which the arrays of the bulk columns are read
\* (lines 511-531)
arrow_rows_read(cs, n) ==
    IF \E i \in 1 .. num_compressed_columns(cs) :
           /\ n.bs.compressed_columns[i].iterator.isnull
           /\ ~n.bs.compressed_columns[i].arrow.isnull
    THEN [n EXCEPT !.probe.arrow_rows =
                       @ \cup {make_next_tuple_arrow_row(cs, n.bs)}]
    ELSE n

\* the history of the row at which the bitmap is read (line 567)
bitmap_row_read(cs, n) ==
    IF n.bs.vector_qual_result.isnull THEN n
    ELSE [n EXCEPT !.probe.bitmap_rows = @ \cup {vector_qual_arrow_row(cs, n.bs)}]

vector_qual_called(cs, n) == bitmap_row_read(cs, asserted_row_in_batch(n))

compressed_batch_make_next_tuple(cs, n) ==
    LET n0 == asserted_row_in_batch(n)
        n1 == make_next_tuple_from(cs, n0, 1)
    IN  IF n1.err # NoError THEN n1
        ELSE [arrow_rows_read(cs, n1) EXCEPT
                 !.bs.decompressed_scan_slot = ExecStoreVirtualTuple(@)]

\* a variant that lets every row pass the vectorized quals
vector_qual_ignoring_bitmap(cs, bs) == TRUE

compressed_batch_vector_qual(cs, bs) ==
    IF bs.vector_qual_result.isnull THEN TRUE
    ELSE arrow_row_is_valid(bs.vector_qual_result.bits,
                            vector_qual_arrow_row(cs, bs))

\* ExecQual of the scan's qual on a slot: a strict comparison of one
\* attribute with a constant
ExecQual(qual, slot) ==
    /\ ~slot.tts_values[qual.attno].isnull
    /\ slot.tts_values[qual.attno].val > qual.const

compressed_batch_postgres_qual(cs, bs) ==
    IF ~cs.qual.present THEN TRUE
    ELSE ExecQual(cs.qual, bs.decompressed_scan_slot)

\* the history of a call of compressed_batch_postgres_qual: one ExecQual
\* when the scan has a qual
postgres_qual_called(cs, n) ==
    IF ~cs.qual.present THEN n ELSE [n EXCEPT !.qual_evals = @ + 1]

(***************************************************************************)
(* compressed_batch_advance.                                               *)
(***************************************************************************)
\* a variant that counts a rejected row twice
count_filtered_twice(n) == [n EXCEPT !.nfiltered1 = @ + 2]

InstrCountFiltered1(n) == [n EXCEPT !.nfiltered1 = @ + 1]

\* lines 612-619: the iterated columns are advanced, the results dropped
RECURSIVE skip_row_from(_, _, _)
skip_row_from(cs, n, i) ==
    IF i > num_compressed_columns(cs) THEN n
    ELSE skip_row_from(
             cs,
             IF ~n.bs.compressed_columns[i].iterator.isnull
             THEN pull_iterator(n, i) ELSE n,
             i + 1)

\* lines 646-657: every iterated column must have ended
RECURSIVE check_iterators_done_from(_, _, _)
check_iterators_done_from(cs, n, i) ==
    IF i > num_compressed_columns(cs) \/ n.err # NoError THEN n
    ELSE LET it == n.bs.compressed_columns[i].iterator
             n1 == [n EXCEPT !.bs.compressed_columns[i].iterator =
                                 try_next_iterator(@)]
         IN  check_iterators_done_from(
                 cs,
                 IF it.isnull THEN n
                 ELSE IF ~try_next_result(it).is_done THEN Raise(n1, OutOfSync)
                 ELSE n1,
                 i + 1)

\* a variant that clears the slot after every row
next_row_clearing(n) ==
    [n EXCEPT !.bs.next_batch_row = @ + 1,
              !.bs.decompressed_scan_slot = ExecClearTuple(@)]

next_row(n) == [n EXCEPT !.bs.next_batch_row = @ + 1]

\* the row in the slot is what the call leaves to the caller
Emit(n) ==
    [n EXCEPT !.emitted = Append(@, [row |-> n.bs.next_batch_row,
                                     tuple |-> n.bs.decompressed_scan_slot.tts_values])]

\* a variant that leaves the last row in the slot at the end of the batch
end_of_batch_keeping_slot(cs, n) == check_iterators_done_from(cs, n, 1)

\* a variant that starts the batch over when it is advanced after its end
end_of_batch_rewinding(cs, n) ==
    LET n1 == check_iterators_done_from(cs, n, 1)
    IN  IF n1.err # NoError THEN n1
        ELSE [n1 EXCEPT !.bs.decompressed_scan_slot = ExecClearTuple(@),
                        !.bs.next_batch_row =
                            IF n.bs.decompressed_scan_slot.empty THEN 0 ELSE @]

end_of_batch(cs, n) ==
    LET n1 == check_iterators_done_from(cs, n, 1)
    IN  IF n1.err # NoError THEN n1
        ELSE [n1 EXCEPT !.bs.decompressed_scan_slot = ExecClearTuple(@)]

RECURSIVE compressed_batch_advance(_, _)
compressed_batch_advance(cs, n) ==
    IF n.bs.next_batch_row < n.bs.total_batch_rows
    THEN IF ~compressed_batch_vector_qual(cs, n.bs)
         THEN compressed_batch_advance(
                  cs, next_row(InstrCountFiltered1(
                          skip_row_from(cs, vector_qual_called(cs, n), 1))))
         ELSE LET n1 == compressed_batch_make_next_tuple(
                            cs, vector_qual_called(cs, n))
                  n2 == postgres_qual_called(cs, n1)
              IN  IF n1.err # NoError THEN n1
                  ELSE IF ~compressed_batch_postgres_qual(cs, n1.bs)
                  THEN compressed_batch_advance(
                           cs, next_row(InstrCountFiltered1(n2)))
                  ELSE next_row(Emit(n2))
    ELSE end_of_batch(cs, n)

(***************************************************************************)
(* compressed_batch_save_first_tuple.                                      *)
(***************************************************************************)
\* ExecCopySlot into the caller's slot
ExecCopySlot(slot) == [empty |-> slot.empty, tts_values |-> slot.tts_values]

\* a variant that saves the first tuple that passes the quals
save_first_matching_tuple(cs, n) ==
    LET n1 == compressed_batch_advance(cs, n)
    IN  IF n1.err # NoError THEN n1
        ELSE [n1 EXCEPT !.first = ExecCopySlot(n1.bs.decompressed_scan_slot)]

\* a variant that does not count the first row when it fails the quals
save_first_tuple_uncounted(cs, n) ==
    LET n1 == compressed_batch_make_next_tuple(cs, n)
        n2 == vector_qual_called(
                  cs, [n1 EXCEPT !.first = ExecCopySlot(n1.bs.decompressed_scan_slot)])
        qual_passed == /\ compressed_batch_vector_qual(cs, n2.bs)
                       /\ compressed_batch_postgres_qual(cs, n2.bs)
        n3 == IF compressed_batch_vector_qual(cs, n2.bs)
              THEN postgres_qual_called(cs, n2) ELSE n2
    IN  IF n1.err # NoError THEN n1
        ELSE IF ~qual_passed
        THEN compressed_batch_advance(cs, next_row(n3))
        ELSE next_row(Emit(n3))

compressed_batch_save_first_tuple(cs, n) ==
    LET n1 == compressed_batch_make_next_tuple(cs, n)
        n2 == vector_qual_called(
                  cs, [n1 EXCEPT !.first = ExecCopySlot(n1.bs.decompressed_scan_slot)])
        qual_passed == /\ compressed_batch_vector_qual(cs, n2.bs)
                       /\ compressed_batch_postgres_qual(cs, n2.bs)
        n3 == IF compressed_batch_vector_qual(cs, n2.bs)
              THEN postgres_qual_called(cs, n2) ELSE n2
    IN  IF n1.err # NoError THEN n1
        ELSE IF ~qual_passed
        THEN compressed_batch_advance(cs, InstrCountFiltered1(next_row(n3)))
        ELSE next_row(Emit(n3))

(***************************************************************************)
(* The scans and the compressed tuples the model runs on.                  *)
(***************************************************************************)
SeqsUpTo(S, n) == UNION {[1 .. k -> S] : k \in 0 .. n}

\* the values of the two compressed attributes
Cells(attno) == IF attno = 1 THEN {NullDatum, Val(5), Val(7)}
                ELSE {Val(0), Val(7)}

NullColumn == [isnull |-> TRUE, rows |-> << >>, arrow_ok |-> FALSE,
               garbage |-> NullDatum]

\* the compressed values of a column: null, or data whose bulk
\* decompression gives an array or nothing
ColumnValues(attno, maxrows) ==
    {NullColumn} \cup
    UNION {
      UNION {
        {[isnull |-> FALSE, rows |-> rows, arrow_ok |-> ok, garbage |-> g] :
            g \in IF ok /\ rows = << >> THEN Cells(attno) ELSE {NullDatum}}
        : ok \in BOOLEAN}
      : rows \in SeqsUpTo(Cells(attno), maxrows)}

\* with bulk decompression not attempted for a column its outcome is not an input
Attempted(cs, attno) ==
    /\ cs.enable_bulk_decompression
    /\ \E i \in 1 .. num_total_columns(cs) :
          /\ cs.template_columns[i].type = "COMPRESSED_COLUMN"
          /\ cs.template_columns[i].compressed_scan_attno = attno
          /\ cs.template_columns[i].bulk_decompression_supported

\* the compressed values a driver feeds for one column: null or data of at
\* most drv.rows rows for the columns in drv.columns, null for the others
DriverColumnValues(cs, drv, attno) ==
    IF attno \notin drv.columns THEN {NullColumn}
    ELSE {v \in ColumnValues(attno, drv.rows) :
             v.arrow_ok => (Attempted(cs, attno) \/ drv.decodable)}

\* the k-th compressed tuple of a scan is the batch of segment k
CompressedTuples(cs, drv, k) ==
    {[data |-> << x, y >>, segmentby |-> Val(k), count |-> c] :
        x \in DriverColumnValues(cs, drv, 1),
        y \in DriverColumnValues(cs, drv, 2),
        c \in -1 .. drv.rows}

EmptyTuple == [data |-> [a \in 1 .. 2 |-> NullColumn], segmentby |-> NullDatum,
               count |-> 0]

GT(attno, c) == [varattno |-> attno, opno |-> ">", constvalue |-> c,
                 constisnull |-> FALSE]

NoQual == [present |-> FALSE, attno |-> 1, const |-> 0]
QualGT(attno, c) == [present |-> TRUE, attno |-> attno, const |-> c]

Layout == << CompressedColumn(1, TRUE), CompressedColumn(2, TRUE),
             SegmentbyColumn, CountColumn, SequenceNumColumn >>
\* the same columns in another order
LayoutSwapped == << CompressedColumn(2, TRUE), CompressedColumn(1, TRUE),
                    CountColumn, SequenceNumColumn, SegmentbyColumn >>

QualPlans == { << >>, << GT(1, 5) >>, << GT(1, 0), GT(2, 0) >>,
               << GT(2, 0), GT(1, 5) >> }

Scan(r, vq, q, ms) ==
    [reverse |-> r, template_columns |-> Layout, vectorized_quals |-> vq,
     qual |-> q, enable_bulk_decompression |-> TRUE, missing |-> ms]

Missing(x) ==
    [a \in OutputAttnos |-> IF a = 1 THEN x ELSE IF a = 2 THEN Val(7) ELSE NullDatum]

\* the scans whose batches hold data in both compressed columns
WideScans ==
    {Scan(r, vq, NoQual, Missing(NullDatum)) : r \in BOOLEAN, vq \in QualPlans}
    \cup
    {Scan(r, vq, QualGT(1, 5), Missing(NullDatum)) :
        r \in BOOLEAN, vq \in {<< >>, << GT(1, 5) >>}}
    \cup
    {[Scan(FALSE, vq, NoQual, Missing(Val(0))) EXCEPT !.template_columns = LayoutSwapped] :
        vq \in {<< >>, << GT(2, 0), GT(1, 5) >>}}

\* the scans whose missing-attribute default of column 1 is a value
DefaultScans ==
    {Scan(r, vq, NoQual, Missing(x)) :
        r \in BOOLEAN, vq \in QualPlans \ {<< >>}, x \in {Val(0), Val(7)}}

NarrowScans ==
    {Scan(r, vq, q, Missing(Val(0))) :
        r \in BOOLEAN, vq \in {<< >>, << GT(1, 5) >>, << GT(1, 0) >>},
        q \in {NoQual, QualGT(1, 5)}}

ReuseScans ==
    {Scan(FALSE, vq, QualGT(1, 5), Missing(Val(7))) : vq \in {<< >>, << GT(1, 5) >>}}
    \cup {Scan(TRUE, << GT(1, 5) >>, QualGT(1, 5), Missing(Val(7)))}

\* the predicates that vectorized quals do not support
Pred(attno, opno, isnull) ==
    [varattno |-> attno, opno |-> opno, constvalue |-> 5, constisnull |-> isnull]

UnsupportedPredicates ==
    {Pred(3, ">", FALSE), Pred(0, ">", FALSE), Pred(1, "=", FALSE),
     Pred(1, ">", TRUE), Pred(3, "=", TRUE)}

\* the scans whose plan holds such a predicate alone, or before or after
\* a supported one
ContractScans ==
    {Scan(FALSE, vq, NoQual, Missing(Val(7))) :
        vq \in UNION {{<< p >>, << GT(1, 5), p >>, << p, GT(1, 5) >>} :
                         p \in UnsupportedPredicates}}

\* the scans that do not attempt bulk decompression for column 1: it is
\* disabled, or not supported for the column
FallbackScans ==
    {[Scan(FALSE, vq, NoQual, Missing(Val(0))) EXCEPT
         !.enable_bulk_decompression = es[1],
         !.template_columns[1] = CompressedColumn(1, es[2])] :
        vq \in {<< >>, << GT(2, 0) >>},
        es \in {<< FALSE, FALSE >>, << FALSE, TRUE >>, << TRUE, FALSE >>}}

WideDriver == [batches |-> 1, rows |-> MaxRows, columns |-> {1, 2},
                decodable |-> FALSE]
\* batches that store no data for column 1, which takes its default value
DefaultDriver == [batches |-> 1, rows |-> MaxRows, columns |-> {2},
                  decodable |-> FALSE]
NarrowDriver == [batches |-> 1, rows |-> MaxRowsNarrow, columns |-> {1},
                  decodable |-> FALSE]
ReuseDriver == [batches |-> MaxBatches, rows |-> MaxRowsReuse, columns |-> {1},
                 decodable |-> FALSE]
ContractDriver == [batches |-> 1, rows |-> MaxRowsReuse, columns |-> {1},
                    decodable |-> FALSE]
\* payloads that bulk decompression could decode, also when it is not attempted
FallbackDriver == [batches |-> 1, rows |-> MaxRowsReuse, columns |-> {1, 2},
                   decodable |-> TRUE]

(***************************************************************************)
(* The planner's check for vectorized aggregation (partialize_agg):        *)
(* is_vectorizable_agg_path and apply_vectorized_agg_optimization.         *)
(***************************************************************************)
\* list_length(path->parent->baserestrictinfo)
is_restricted_path(path) == path.baserestrictinfo # 0

Aggref(aggfnoid) == [node |-> "Aggref", aggfnoid |-> aggfnoid]
VarNode == [node |-> "Var", aggfnoid |-> "none"]

\* a variant that does not look at the restrictions of the compressed path
is_vectorizable_agg_path_child_unchecked(root, agg_path, path) ==
    IF root.hasHavingQual THEN FALSE
    ELSE IF ~path.is_decompress_chunk THEN FALSE
    ELSE IF is_restricted_path(path) THEN FALSE
    ELSE IF Len(agg_path.pathtarget) # 1 THEN FALSE
    ELSE IF agg_path.pathtarget[1].node # "Aggref" THEN FALSE
    ELSE IF agg_path.pathtarget[1].aggfnoid # "F_SUM_INT4" THEN FALSE
    ELSE TRUE

is_vectorizable_agg_path(root, agg_path, path) ==
    IF root.hasHavingQual THEN FALSE
    ELSE IF ~path.is_decompress_chunk THEN FALSE
    ELSE IF is_restricted_path(path) \/ is_restricted_path(path.compressed_path)
    THEN FALSE
    ELSE IF Len(agg_path.pathtarget) # 1 THEN FALSE
    ELSE IF agg_path.pathtarget[1].node # "Aggref" THEN FALSE
    ELSE IF agg_path.pathtarget[1].aggfnoid # "F_SUM_INT4" THEN FALSE
    ELSE TRUE

\* the call's result and the path it leaves
apply_vectorized_agg_optimization(guc, root, aggregation_path, path) ==
    IF ~guc THEN [result |-> FALSE, path |-> path]
    ELSE IF is_vectorizable_agg_path(root, aggregation_path, path)
    THEN [result |-> TRUE,
          path |-> [path EXCEPT !.perform_vectorized_aggregation = TRUE,
                                !.pathtarget = aggregation_path.pathtarget]]
    ELSE [result |-> FALSE, path |-> path]

\* the scan target of a path before the planner changes it
ScanTarget == << VarNode >>

TargetExprs ==
    SeqsUpTo({Aggref("F_SUM_INT4"), Aggref("F_SUM_FLOAT4"), VarNode}, MaxTargetExprs)

Paths ==
    {[is_decompress_chunk |-> d, baserestrictinfo |-> r,
      compressed_path |-> [baserestrictinfo |-> IF d THEN rc ELSE 0],
      perform_vectorized_aggregation |-> FALSE, pathtarget |-> ScanTarget] :
        d \in BOOLEAN, r \in 0 .. MaxRestrictions, rc \in 0 .. MaxRestrictions}

\* the calls the planner can make
PlannerCalls ==
    {[called |-> FALSE, ts_guc_enable_vectorized_aggregation |-> g,
      root |-> [hasHavingQual |-> h], aggregation_path |-> [pathtarget |-> t],
      path |-> p, result |-> FALSE, path_after |-> p] :
        g \in BOOLEAN, h \in BOOLEAN, t \in TargetExprs, p \in Paths}

\* no call of the planner
NoPlanner ==
    [called |-> FALSE, ts_guc_enable_vectorized_aggregation |-> FALSE,
     root |-> [hasHavingQual |-> FALSE], aggregation_path |-> [pathtarget |-> << >>],
     path |-> [is_decompress_chunk |-> FALSE, baserestrictinfo |-> 0,
               compressed_path |-> [baserestrictinfo |-> 0],
               perform_vectorized_aggregation |-> FALSE, pathtarget |-> ScanTarget],
     result |-> FALSE,
     path_after |-> [is_decompress_chunk |-> FALSE, baserestrictinfo |-> 0,
                     compressed_path |-> [baserestrictinfo |-> 0],
                     perform_vectorized_aggregation |-> FALSE,
                     pathtarget |-> ScanTarget]]

(***************************************************************************)
(* The state machine.                                                      *)
(***************************************************************************)
EmptySlot == [empty |-> TRUE, tts_values |-> [a \in OutputAttnos |-> NullDatum]]

\* no assertion has failed, no array and no bitmap has been read
NoProbe == [failed |-> FALSE, arrow_rows |-> {}, bitmap_rows |-> {}]

InitBatchState(cs) ==
    [per_batch_context |-> FALSE,
     compressed_slot |-> EmptyTuple,
     total_batch_rows |-> 0,
     next_batch_row |-> 0,
     compressed_columns |->
         [i \in 1 .. num_compressed_columns(cs) |-> ResetColumnValues(0)],
     vector_qual_result |-> NoBitmap,
     decompressed_scan_slot |-> EmptySlot]

NoPulls(cs) == [i \in 1 .. num_compressed_columns(cs) |-> 0]

Init ==
    /\ \/ chunk_state \in WideScans /\ driver = WideDriver
       \/ chunk_state \in DefaultScans /\ driver = DefaultDriver
       \/ chunk_state \in NarrowScans /\ driver = NarrowDriver
       \/ chunk_state \in ReuseScans /\ driver = ReuseDriver
       \/ chunk_state \in ContractScans /\ driver = ContractDriver
       \/ chunk_state \in FallbackScans /\ driver = FallbackDriver
    /\ batch_state = InitBatchState(chunk_state)
    /\ first_tuple_slot = EmptySlot
    /\ nfiltered1 = 0
    /\ error = NoError
    /\ batches_loaded = 0
    /\ emitted = << >>
    /\ pulls = NoPulls(chunk_state)
    /\ predicate_calls = << >>
    /\ saved_first = FALSE
    /\ advance_calls = 0
    /\ nfiltered1_at_load = 0
    /\ qual_evals = 0
    /\ probe = NoProbe
    /\ planner = NoPlanner

TupIsNull(slot) == slot.empty

\* the state a call of advance or save_first_tuple works on
Working ==
    [bs |-> batch_state, err |-> NoError, nfiltered1 |-> nfiltered1,
     first |-> first_tuple_slot, emitted |-> emitted, pulls |-> pulls,
     qual_evals |-> qual_evals, probe |-> probe]

Returned(n) ==
    /\ batch_state' = n.bs
    /\ error' = n.err
    /\ nfiltered1' = n.nfiltered1
    /\ first_tuple_slot' = n.first
    /\ emitted' = n.emitted
    /\ pulls' = n.pulls
    /\ qual_evals' = n.qual_evals
    /\ probe' = n.probe

SetCompressedTuple(tuple) ==
    /\ error = NoError
    /\ TupIsNull(batch_state.decompressed_scan_slot)
    /\ LET m == compressed_batch_set_compressed_tuple(chunk_state, batch_state, tuple)
       IN  /\ batch_state' = m.bs
           /\ error' = m.err
           /\ predicate_calls' = m.calls
    /\ batches_loaded' = batches_loaded + 1
    /\ emitted' = << >>
    /\ pulls' = NoPulls(chunk_state)
    /\ saved_first' = FALSE
    /\ advance_calls' = 0
    /\ nfiltered1_at_load' = nfiltered1
    /\ qual_evals' = 0
    /\ probe' = NoProbe
    /\ UNCHANGED << chunk_state, first_tuple_slot, nfiltered1, driver, planner >>

Load ==
    /\ batches_loaded < driver.batches
    /\ \E tuple \in CompressedTuples(chunk_state, driver, batches_loaded + 1) :
          SetCompressedTuple(tuple)

\* the calls of compressed_batch_advance made on the batch after the call
\* that exhausted it: every row emitted took one call, the first of them
\* none when compressed_batch_save_first_tuple started the batch
IdleCalls ==
    advance_calls - (Len(emitted) + 1 - (IF saved_first THEN 1 ELSE 0))

Advance ==
    /\ error = NoError
    /\ batches_loaded > 0
    /\ batch_state.total_batch_rows > 0
    /\ (TupIsNull(batch_state.decompressed_scan_slot)
          /\ batch_state.next_batch_row = batch_state.total_batch_rows)
           => IdleCalls < MaxIdleCalls
    /\ Returned(compressed_batch_advance(chunk_state, Working))
    /\ advance_calls' = advance_calls + 1
    /\ UNCHANGED << chunk_state, batches_loaded, predicate_calls, saved_first,
                    nfiltered1_at_load, driver, planner >>

SaveFirstTuple ==
    /\ error = NoError
    /\ batches_loaded > 0
    /\ batch_state.next_batch_row = 0
    /\ batch_state.total_batch_rows > 0
    /\ TupIsNull(batch_state.decompressed_scan_slot)
    /\ Returned(compressed_batch_save_first_tuple(chunk_state, Working))
    /\ saved_first' = TRUE
    /\ UNCHANGED << chunk_state, batches_loaded, predicate_calls, advance_calls,
                    nfiltered1_at_load, driver, planner >>

Next == Load \/ Advance \/ SaveFirstTuple

Spec == Init /\ [][Next]_vars

(***************************************************************************)
(* The planner's calls of apply_vectorized_agg_optimization, before any    *)
(* batch is scanned.                                                       *)
(***************************************************************************)
AggInit ==
    /\ planner \in PlannerCalls
    /\ chunk_state = Scan(FALSE, << >>, NoQual, Missing(NullDatum))
    /\ driver = WideDriver
    /\ batch_state = InitBatchState(chunk_state)
    /\ first_tuple_slot = EmptySlot
    /\ nfiltered1 = 0
    /\ error = NoError
    /\ batches_loaded = 0
    /\ emitted = << >>
    /\ pulls = NoPulls(chunk_state)
    /\ predicate_calls = << >>
    /\ saved_first = FALSE
    /\ advance_calls = 0
    /\ nfiltered1_at_load = 0
    /\ qual_evals = 0
    /\ probe = NoProbe

ApplyVectorizedAggOptimization ==
    /\ ~planner.called
    /\ LET r == apply_vectorized_agg_optimization(
                    planner.ts_guc_enable_vectorized_aggregation, planner.root,
                    planner.aggregation_path, planner.path)
       IN  planner' = [planner EXCEPT !.called = TRUE, !.result = r.result,
                                      !.path_after = r.path]
    /\ UNCHANGED << chunk_state, batch_state, first_tuple_slot, nfiltered1, error,
                    batches_loaded, emitted, pulls, predicate_calls, saved_first,
                    advance_calls, nfiltered1_at_load, qual_evals,
                    probe, driver >>

AggNext == ApplyVectorizedAggOptimization

AggSpec == AggInit /\ [][AggNext]_vars

(***************************************************************************)
(* What a batch holds, read from the compressed tuple of the batch state   *)
(* and the scan's description alone.                                       *)
(***************************************************************************)
LoadedOK == error = NoError /\ batches_loaded > 0

Exhausted ==
    /\ LoadedOK
    /\ batch_state.next_batch_row = batch_state.total_batch_rows
    /\ TupIsNull(batch_state.decompressed_scan_slot)

\* the compressed column index of an attribute
ColumnIndexOf(attno) ==
    CHOOSE i \in 1 .. num_total_columns(chunk_state) :
        chunk_state.template_columns[i].output_attno = attno

ColumnForm(tuple, attno) ==
    IF tuple.data[attno].isnull THEN "default"
    ELSE IF Attempted(chunk_state, attno) /\ tuple.data[attno].arrow_ok THEN "bulk"
    ELSE "iterator"

IteratorColumns(tuple) == {a \in 1 .. 2 : ColumnForm(tuple, a) = "iterator"}
BulkColumns(tuple) == {a \in 1 .. 2 : ColumnForm(tuple, a) = "bulk"}

\* every iterator of the batch holds as many values as the batch has rows
IteratorsInSync(tuple) ==
    \A a \in IteratorColumns(tuple) : Len(tuple.data[a].rows) = tuple.count

\* the row of the batch that cursor position c stands for
LogicalRowIn(reverse, total, c) == IF reverse THEN total - 1 - c ELSE c

\* the value of an attribute in the row at cursor position c
OracleDatum(reverse, tuple, attno, c) ==
    LET rows == tuple.data[attno].rows
        l == LogicalRowIn(reverse, tuple.count, c)
        inorder == IF reverse THEN ReverseSeq(rows) ELSE rows
    IN  IF attno = 3 THEN tuple.segmentby
        ELSE CASE ColumnForm(tuple, attno) = "default" -> chunk_state.missing[attno]
               [] ColumnForm(tuple, attno) = "bulk" ->
                     IF l < Len(rows) THEN rows[l + 1] ELSE tuple.data[attno].garbage
               [] OTHER -> IF c < Len(inorder) THEN inorder[c + 1] ELSE NullDatum

OracleTuple(reverse, tuple, c) ==
    [a \in OutputAttnos |-> OracleDatum(reverse, tuple, a, c)]

\* the bit of the batch's bitmap for cursor position c
BitmapBit(c) ==
    \/ batch_state.vector_qual_result.isnull
    \/ batch_state.vector_qual_result.bits[
           LogicalRowIn(chunk_state.reverse, batch_state.total_batch_rows, c) + 1]

RowFilterPasses(values) ==
    \/ ~chunk_state.qual.present
    \/ /\ ~values[chunk_state.qual.attno].isnull
       /\ values[chunk_state.qual.attno].val > chunk_state.qual.const

RowPasses(c) ==
    /\ BitmapBit(c)
    /\ RowFilterPasses(OracleTuple(chunk_state.reverse, batch_state.compressed_slot, c))

RECURSIVE ExpectedUpTo(_)
ExpectedUpTo(k) ==
    IF k = 0 THEN << >>
    ELSE IF RowPasses(k - 1)
    THEN Append(ExpectedUpTo(k - 1),
                [row |-> k - 1,
                 tuple |-> OracleTuple(chunk_state.reverse,
                                       batch_state.compressed_slot, k - 1)])
    ELSE ExpectedUpTo(k - 1)

(***************************************************************************)
(* C1: the rows the calls of a batch have left in the output slot are, in  *)
(* increasing cursor order and each once, exactly the cursor positions     *)
(* passed so far whose bitmap bit is set (any position without a bitmap)   *)
(* and whose materialized row passes the row filter.                       *)
(***************************************************************************)
C1_EmittedExactlyPassingRows ==
    LoadedOK => emitted = ExpectedUpTo(batch_state.next_batch_row)

\* an exhausted batch with an emitted row, a row skipped by the bitmap and
\* a row rejected by the row filter
C1_Witness ==
    /\ Exhausted
    /\ ~saved_first
    /\ Len(emitted) >= 1
    /\ \E c \in 0 .. batch_state.total_batch_rows - 1 : ~BitmapBit(c)
    /\ \E c \in 0 .. batch_state.total_batch_rows - 1 : BitmapBit(c) /\ ~RowPasses(c)

(***************************************************************************)
(* Every row position passed, whether skipped by the bitmap, rejected by   *)
(* the row filter or emitted, has made one try_next call on each iterator  *)
(* column, and none on the other columns.                                  *)
(***************************************************************************)
OnePullPerRowPosition ==
    LoadedOK =>
        \A a \in 1 .. 2 :
            LET i == ColumnIndexOf(a)
            IN  IF a \in IteratorColumns(batch_state.compressed_slot)
                THEN pulls[i] = batch_state.next_batch_row
                ELSE pulls[i] = 0

\* the values an iterator has given so far
values_pulled(it) == it.pos

(***************************************************************************)
(* C2: when a batch is exhausted, by advance calls alone or after a        *)
(* save_first_tuple, each of its iterator columns has been pulled once for *)
(* every row position and has given as many values as the declared row     *)
(* count of the batch.                                                     *)
(***************************************************************************)
C2_ValuesPulledEqualRowCount ==
    Exhausted =>
        \A a \in IteratorColumns(batch_state.compressed_slot) :
            LET i == ColumnIndexOf(a)
            IN  /\ pulls[i] = batch_state.compressed_slot.count
                /\ values_pulled(batch_state.compressed_columns[i].iterator)
                       = batch_state.compressed_slot.count

\* the same for the batches whose iterators are in sync with the row count
ValuesPulledEqualRowCountInSync ==
    IteratorsInSync(batch_state.compressed_slot) => C2_ValuesPulledEqualRowCount

(***************************************************************************)
(* The forward scan of the tuple of the batch state: the load and the      *)
(* advance calls up to the end of the batch or an error, on a fresh batch  *)
(* state of the same scan with reverse off.                                *)
(***************************************************************************)
RECURSIVE RunToEnd(_, _)
RunToEnd(cs, n) ==
    LET n1 == compressed_batch_advance(cs, n)
    IN  IF n1.err # NoError \/ TupIsNull(n1.bs.decompressed_scan_slot) THEN n1
        ELSE RunToEnd(cs, n1)

ScanOf(cs, tuple) ==
    LET m == compressed_batch_set_compressed_tuple(cs, InitBatchState(cs), tuple)
        n == [bs |-> m.bs, err |-> m.err, nfiltered1 |-> 0, first |-> EmptySlot,
              emitted |-> << >>, pulls |-> NoPulls(cs), qual_evals |-> 0,
              probe |-> NoProbe]
    IN  IF m.err # NoError THEN n ELSE RunToEnd(cs, n)

ForwardScan == ScanOf([chunk_state EXCEPT !.reverse = FALSE],
                      batch_state.compressed_slot)

TuplesOf(rows) == [j \in 1 .. Len(rows) |-> rows[j].tuple]

(***************************************************************************)
(* C3: the rows a reverse scan has emitted when the batch is exhausted are *)
(* the rows of the forward scan of the same batch in reverse order.        *)
(***************************************************************************)
C3_ReverseMirrorsForward ==
    (Exhausted /\ chunk_state.reverse) =>
        /\ ForwardScan.err = NoError
        /\ TuplesOf(emitted) = ReverseSeq(TuplesOf(ForwardScan.emitted))
        /\ \A j \in 1 .. Len(emitted) :
              emitted[j].row = batch_state.total_batch_rows - 1
                               - ForwardScan.emitted[Len(emitted) + 1 - j].row

\* the same for the batches whose iterators are in sync with the row count
ReverseMirrorsForwardInSync ==
    IteratorsInSync(batch_state.compressed_slot) => C3_ReverseMirrorsForward

(***************************************************************************)
(* C4: after save_first_tuple on a freshly loaded batch the caller's slot  *)
(* holds the materialized row of cursor 0, whether or not it passes the    *)
(* bitmap and the row filter; the cursor is past row 0, and row 0 is among *)
(* the rows left in the output slot exactly when it passed both.           *)
(***************************************************************************)
C4_FirstTupleSaved ==
    (LoadedOK /\ saved_first) =>
        /\ ~first_tuple_slot.empty
        /\ first_tuple_slot.tts_values =
               OracleTuple(chunk_state.reverse, batch_state.compressed_slot, 0)
        /\ batch_state.next_batch_row >= 1
        /\ (\E j \in 1 .. Len(emitted) : emitted[j].row = 0) <=> RowPasses(0)
        /\ RowPasses(0) => emitted[1].row = 0
        /\ (RowPasses(0) /\ batch_state.next_batch_row = 1 /\ ~Exhausted) =>
               /\ ~TupIsNull(batch_state.decompressed_scan_slot)
               /\ batch_state.decompressed_scan_slot.tts_values =
                      first_tuple_slot.tts_values
        /\ ~RowPasses(0) =>
               \/ Exhausted
               \/ /\ ~TupIsNull(batch_state.decompressed_scan_slot)
                  /\ emitted # << >>
                  /\ emitted[Len(emitted)].row = batch_state.next_batch_row - 1
                  /\ emitted[Len(emitted)].row >= 1

\* row 0 failed the quals, was saved, and a later row is in the output slot
C4_Witness ==
    /\ LoadedOK /\ saved_first
    /\ ~RowPasses(0)
    /\ Len(emitted) = 1
    /\ first_tuple_slot.tts_values # batch_state.decompressed_scan_slot.tts_values

(***************************************************************************)
(* The load of the tuple of the batch state into a batch state that has    *)
(* never held a batch.                                                     *)
(***************************************************************************)
FreshLoad ==
    compressed_batch_set_compressed_tuple(
        chunk_state, InitBatchState(chunk_state), batch_state.compressed_slot)

\* the data sources a compressed column was loaded with
SourcesOf(column_values) ==
    [iterator_isnull |-> column_values.iterator.isnull,
     iterator_data |-> column_values.iterator.data,
     arrow |-> column_values.arrow,
     value_bytes |-> column_values.value_bytes]

\* a load step that succeeds on a batch state that has held a batch before
ReloadStep ==
    /\ batches_loaded >= 1
    /\ batches_loaded' = batches_loaded + 1
    /\ error' = NoError

\* the batch state right after a load is, but for the stale values of the
\* empty output slot under the columns that hold data, the fresh load
ReloadResets ==
    ReloadStep =>
        LET bs == batch_state'
            tuple == bs.compressed_slot
            fresh == compressed_batch_set_compressed_tuple(
                         chunk_state, InitBatchState(chunk_state), tuple)
        IN  /\ bs.next_batch_row = 0
            /\ bs.total_batch_rows = tuple.count
            /\ fresh.err = NoError
            /\ bs.vector_qual_result = fresh.bs.vector_qual_result
            /\ bs.compressed_columns = fresh.bs.compressed_columns
            /\ TupIsNull(bs.decompressed_scan_slot)
            /\ \A a \in OutputAttnos :
                  (a = 3 \/ ColumnForm(tuple, a) = "default") =>
                      bs.decompressed_scan_slot.tts_values[a] =
                          OracleDatum(chunk_state.reverse, tuple, a, 0)

\* a batch that is not the first of its batch state
Reloaded == LoadedOK /\ batches_loaded >= 2

BulkValueAt(tuple, attno, row) ==
    arrow_datum(decompress_all(tuple.data[attno]), row)

\* one predicate of the plan on one logical row
RowWisePredicate(tuple, oe, row) ==
    LET v == BulkValueAt(tuple, oe.varattno, row)
    IN  ~v.isnull /\ Compare(oe.opno, v.val, oe.constvalue)

\* the plan of the scan refers to bulk-form columns only, and to some
PlanOverBulkColumns(tuple) ==
    /\ chunk_state.vectorized_quals # << >>
    /\ \A k \in 1 .. Len(chunk_state.vectorized_quals) :
          chunk_state.vectorized_quals[k].varattno \in BulkColumns(tuple)

\* every bulk array of the batch has as many rows as the batch
BulkInSync(tuple) ==
    \A a \in BulkColumns(tuple) : Len(tuple.data[a].rows) = tuple.count

(***************************************************************************)
(* C6: for a plan over bulk-form columns the bitmap of a loaded batch has  *)
(* bit i set exactly when every predicate of the plan holds on the value,  *)
(* not null, of its column at logical row i.                               *)
(***************************************************************************)
C6_BitmapIsRowWiseEvaluation ==
    (LoadedOK /\ PlanOverBulkColumns(batch_state.compressed_slot)) =>
        /\ ~batch_state.vector_qual_result.isnull
        /\ Len(batch_state.vector_qual_result.bits) = batch_state.total_batch_rows
        /\ \A row \in 0 .. batch_state.total_batch_rows - 1 :
              arrow_row_is_valid(batch_state.vector_qual_result.bits, row)
              <=> \A k \in 1 .. Len(chunk_state.vectorized_quals) :
                     RowWisePredicate(batch_state.compressed_slot,
                                      chunk_state.vectorized_quals[k], row)

\* the same for the batches whose bulk arrays are in sync with the row count
BitmapIsRowWiseEvaluationInSync ==
    BulkInSync(batch_state.compressed_slot) => C6_BitmapIsRowWiseEvaluation

(***************************************************************************)
(* The vectorized predicates on default-value columns.                     *)
(***************************************************************************)
\* the predicates of the plan that refer to a column without data
DefaultPredicates(tuple) ==
    {k \in 1 .. Len(chunk_state.vectorized_quals) :
        LET a == chunk_state.vectorized_quals[k].varattno
        IN  a \in 1 .. 2 /\ ColumnForm(tuple, a) = "default"}

\* a predicate on the default value of its column
HoldsOnDefault(oe) ==
    LET d == chunk_state.missing[oe.varattno]
    IN  ~d.isnull /\ Compare(oe.opno, d.val, oe.constvalue)

PlanWithout(plan, k) == SubSeq(plan, 1, k - 1) \o SubSeq(plan, k + 1, Len(plan))

\* the bits of a bitmap of n rows; without a bitmap every row passes
BitsOf(bitmap, n) == IF bitmap.isnull THEN [i \in 1 .. n |-> TRUE] ELSE bitmap.bits

\* the bits the batch gets from the plan without its k-th predicate
BitsWithout(k) ==
    LET cs == [chunk_state EXCEPT
                  !.vectorized_quals = PlanWithout(chunk_state.vectorized_quals, k)]
        m == compressed_batch_set_compressed_tuple(
                 cs, InitBatchState(cs), batch_state.compressed_slot)
    IN  BitsOf(m.bs.vector_qual_result, m.bs.total_batch_rows)

(***************************************************************************)
(* C7: a predicate on a default-value column that fails on the default     *)
(* value leaves every bit of the bitmap zero and the batch emits no row,   *)
(* wherever the predicate stands in the plan; one that holds on the        *)
(* default value leaves the bitmap what the other predicates make it.      *)
(***************************************************************************)
C7_DefaultValuePredicate ==
    LoadedOK =>
        \A k \in DefaultPredicates(batch_state.compressed_slot) :
            IF HoldsOnDefault(chunk_state.vectorized_quals[k])
            THEN batch_state.vector_qual_result.bits = BitsWithout(k)
            ELSE /\ batch_state.vector_qual_result =
                        AllZeros(batch_state.total_batch_rows)
                 /\ emitted = << >>
                 /\ nfiltered1 = batch_state.next_batch_row

\* column 1 stored null for the whole batch, default value 0, a > 0 first
\* in the plan before a predicate every row of column 2 satisfies: the
\* batch of two rows has been run to its end
C7_Witness ==
    /\ Exhausted
    /\ batch_state.total_batch_rows = 2
    /\ chunk_state.vectorized_quals = << GT(1, 0), GT(2, 0) >>
    /\ chunk_state.missing[1] = Val(0)
    /\ ColumnForm(batch_state.compressed_slot, 1) = "default"
    /\ batch_state.compressed_slot.data[2].rows = << Val(7), Val(7) >>
    /\ ColumnForm(batch_state.compressed_slot, 2) = "bulk"
    /\ emitted = << >>

(***************************************************************************)
(* C8: a batch with a bulk array whose length differs from the declared    *)
(* row count, or from the length of another bulk array, fails in the load  *)
(* and never emits a row, in every order of the columns.                   *)
(***************************************************************************)
C8_BulkLengthMismatchIsFatal ==
    (batches_loaded > 0 /\ ~BulkInSync(batch_state.compressed_slot)) =>
        /\ error # NoError
        /\ emitted = << >>

\* the same for the batches without a bulk array of length 0
BulkLengthMismatchIsFatalNonZero ==
    (\A a \in BulkColumns(batch_state.compressed_slot) :
        batch_state.compressed_slot.data[a].rows # << >>)
    => C8_BulkLengthMismatchIsFatal

\* a bulk array of length 0 in a batch that declares rows is loaded and read
BulkLengthZeroEmitsRow ==
    /\ LoadedOK
    /\ \E a \in BulkColumns(batch_state.compressed_slot) :
          batch_state.compressed_slot.data[a].rows = << >>
    /\ emitted # << >>

(***************************************************************************)
(* C9: a declared row count of zero or less fails the load with the        *)
(* corruption error, unless a column before the count has failed it;       *)
(* a loaded batch has total_batch_rows equal to the declared count, which  *)
(* is positive.                                                            *)
(***************************************************************************)
C9_RowCountValidated ==
    batches_loaded > 0 =>
        /\ batch_state.compressed_slot.count <= 0 =>
              /\ error \in {CorruptLength, OutOfSync}
              /\ error = OutOfSync =>
                    ~BulkInSync([batch_state.compressed_slot EXCEPT
                                    !.count = batch_state.total_batch_rows])
              /\ emitted = << >>
        /\ error = NoError =>
              /\ batch_state.compressed_slot.count > 0
              /\ batch_state.total_batch_rows = batch_state.compressed_slot.count

\* a batch that declares no rows has failed with the corruption error
C9_Witness ==
    /\ batches_loaded > 0
    /\ batch_state.compressed_slot.count = 0
    /\ BulkColumns(batch_state.compressed_slot) # {}
    /\ error = CorruptLength

(***************************************************************************)
(* C10: a batch with an iterator that holds fewer or more values than the  *)
(* declared row count is never run to a clean end.                         *)
(***************************************************************************)
C10_IteratorDesyncIsFatal ==
    Exhausted => IteratorsInSync(batch_state.compressed_slot)

\* an iterator that holds more values than the batch has rows is fatal
IteratorLateIsFatal ==
    Exhausted =>
        \A a \in IteratorColumns(batch_state.compressed_slot) :
            Len(batch_state.compressed_slot.data[a].rows)
                <= batch_state.compressed_slot.count

\* an iterator that ends on a row the bitmap lets through is fatal
IteratorEarlyOnPassingRowIsFatal ==
    Exhausted =>
        \A a \in IteratorColumns(batch_state.compressed_slot) :
            \A c \in Len(batch_state.compressed_slot.data[a].rows)
                        .. batch_state.total_batch_rows - 1 : ~BitmapBit(c)

(***************************************************************************)
(* The outcome of one call of compressed_batch_advance, read from the      *)
(* batch before the call.                                                  *)
(***************************************************************************)
\* the cursor positions from the cursor on that pass both quals
PassingFrom(c0) ==
    {c \in c0 .. batch_state.total_batch_rows - 1 : RowPasses(c)}

FirstPassingFrom(c0) ==
    CHOOSE c \in PassingFrom(c0) : \A d \in PassingFrom(c0) : c <= d

\* a call of compressed_batch_advance that returns
AdvanceReturns == Advance /\ error' = NoError

(***************************************************************************)
(* C11: a call of compressed_batch_advance that returns leaves the output  *)
(* slot filled exactly when a row from the cursor on passes the bitmap and *)
(* the row filter, and then with the first such row and the cursor behind  *)
(* it; otherwise the slot is cleared and the cursor is total_batch_rows.   *)
(***************************************************************************)
C11_SlotFilledIffRowFound ==
    [][AdvanceReturns =>
          LET slot == batch_state'.decompressed_scan_slot
              c0 == batch_state.next_batch_row
          IN  /\ ~TupIsNull(slot) <=> PassingFrom(c0) # {}
              /\ PassingFrom(c0) # {} =>
                    /\ batch_state'.next_batch_row = FirstPassingFrom(c0) + 1
                    /\ slot.tts_values =
                           OracleTuple(chunk_state.reverse,
                                       batch_state.compressed_slot,
                                       FirstPassingFrom(c0))
              /\ PassingFrom(c0) = {} =>
                    /\ TupIsNull(slot)
                    /\ batch_state'.next_batch_row = batch_state.total_batch_rows]_vars

\* two calls have each found a row, after a row that was rejected, and a
\* third has cleared the slot at the end of the batch
C11_Witness ==
    /\ Exhausted
    /\ ~saved_first
    /\ Len(emitted) = 2
    /\ batch_state.total_batch_rows = 3

(***************************************************************************)
(* The contract of the vectorized quals.                                   *)
(***************************************************************************)
\* the columns of the tuple of the batch state were loaded without error
ColumnsLoaded ==
    LET m0 == [bs |-> reset_batch_counters(InitBatchState(chunk_state),
                                           batch_state.compressed_slot),
               err |-> NoError, calls |-> << >>]
    IN  set_columns_from(chunk_state, m0, batch_state.compressed_slot, 1).err
            = NoError

\* the kind of the column a Var refers to
KindOf(varattno) ==
    chunk_state.template_columns[find_column_index(chunk_state, varattno)].type

\* what a predicate breaks the contract with, in the order of the checks
Defect(tuple, oe) ==
    IF KindOf(oe.varattno) # "COMPRESSED_COLUMN" THEN OnlyCompressed
    ELSE IF ColumnForm(tuple, oe.varattno) = "iterator" THEN OnlyArrow
    ELSE IF oe.opno \notin RegisteredOps THEN PredicateNotFound
    ELSE IF oe.constisnull THEN NullConstant
    ELSE NoError

Defective(tuple) ==
    {k \in 1 .. Len(chunk_state.vectorized_quals) :
        Defect(tuple, chunk_state.vectorized_quals[k]) # NoError}

FirstDefective(tuple) ==
    CHOOSE k \in Defective(tuple) : \A j \in Defective(tuple) : k <= j

(***************************************************************************)
(* C12: when a predicate of the plan refers to a column that is not a      *)
(* compressed column, refers to a compressed column in iterator form, has  *)
(* an operator without a vectorized predicate or has a null constant, the  *)
(* load fails in apply_vector_quals with the error of that defect, and the *)
(* predicate function has been called for the predicates before the first  *)
(* such predicate only.                                                    *)
(***************************************************************************)
C12_UnsupportedPredicateIsFatal ==
    LET tuple == batch_state.compressed_slot
    IN  (batches_loaded > 0 /\ ColumnsLoaded /\ Defective(tuple) # {}) =>
            LET k == FirstDefective(tuple)
            IN  /\ error = Defect(tuple, chunk_state.vectorized_quals[k])
                /\ Len(predicate_calls) = k - 1
                /\ \A j \in 1 .. k - 1 :
                      predicate_calls[j].varattno =
                          chunk_state.vectorized_quals[j].varattno
                /\ emitted = << >>

\* a null constant behind a supported predicate that was computed
C12_Witness ==
    /\ batches_loaded > 0
    /\ error = NullConstant
    /\ Len(chunk_state.vectorized_quals) = 2
    /\ Len(predicate_calls) = 1

(***************************************************************************)
(* C13: a loaded compressed column with data holds an ArrowArray exactly   *)
(* when bulk decompression is enabled, supported for the column and gives  *)
(* an array; otherwise it holds an iterator over the same data; a column   *)
(* without data holds neither.  A batch whose columns all fall back to     *)
(* iterators loads without error.                                          *)
(***************************************************************************)
C13_BulkFirstElseIterator ==
    LET tuple == batch_state.compressed_slot
    IN  /\ LoadedOK =>
              \A a \in 1 .. 2 :
                  LET column_values == batch_state.compressed_columns[ColumnIndexOf(a)]
                      description == chunk_state.template_columns[ColumnIndexOf(a)]
                      decoded == /\ chunk_state.enable_bulk_decompression
                                 /\ description.bulk_decompression_supported
                                 /\ tuple.data[a].arrow_ok
                  IN  IF tuple.data[a].isnull
                      THEN column_values.arrow.isnull /\ column_values.iterator.isnull
                      ELSE IF decoded
                      THEN /\ column_values.arrow = decompress_all(tuple.data[a])
                           /\ column_values.iterator.isnull
                      ELSE /\ column_values.arrow.isnull
                           /\ ~column_values.iterator.isnull
                           /\ column_values.iterator.data =
                                  IF chunk_state.reverse
                                  THEN ReverseSeq(tuple.data[a].rows)
                                  ELSE tuple.data[a].rows
        /\ (batches_loaded > 0 /\ BulkColumns(tuple) = {} /\ tuple.count > 0
                /\ chunk_state.vectorized_quals = << >>) => FreshLoad.err = NoError

\* bulk decompression is disabled, the data of column 1 could be decoded in
\* bulk, and the batch has given a row through the iterator
C13_Witness ==
    /\ LoadedOK
    /\ ~chunk_state.enable_bulk_decompression
    /\ batch_state.compressed_slot.data[1].arrow_ok
    /\ ~batch_state.compressed_columns[1].iterator.isnull
    /\ emitted # << >>

(***************************************************************************)
(* The batch of three rows 5, NULL, 7 of column 1 in bulk form, scanned    *)
(* forward with the vectorized qual column 1 > 5 and no row filter, by     *)
(* calls of compressed_batch_advance alone; a second column, if the batch  *)
(* has one, holds three rows as well.                                      *)
(***************************************************************************)
ScenarioA ==
    /\ batches_loaded > 0
    /\ ~saved_first
    /\ ~chunk_state.reverse
    /\ chunk_state.vectorized_quals = << GT(1, 5) >>
    /\ ~chunk_state.qual.present
    /\ batch_state.compressed_slot.count = 3
    /\ batch_state.compressed_slot.data[1].rows = << Val(5), NullDatum, Val(7) >>
    /\ ColumnForm(batch_state.compressed_slot, 1) = "bulk"
    /\ IteratorsInSync(batch_state.compressed_slot)
    /\ BulkInSync(batch_state.compressed_slot)

\* C14 as stated: the bitmap is 0, 0, 1, only row 2 is emitted, and the
\* batch is exhausted by the third call of compressed_batch_advance
C14_ExhaustedAfterThreeAdvances ==
    ScenarioA =>
        /\ error = NoError
        /\ batch_state.vector_qual_result.bits = << FALSE, FALSE, TRUE >>
        /\ \A j \in 1 .. Len(emitted) : emitted[j].row = 2
        /\ advance_calls < 3 => ~Exhausted

(***************************************************************************)
(* C14, amended: the bitmap is 0, 0, 1; the first call of                  *)
(* compressed_batch_advance passes the rows 0 and 1, counts them as        *)
(* filtered and leaves row 2 in the slot with the cursor at 3; the second  *)
(* call clears the slot: the batch is exhausted after two calls, with only *)
(* row 2 emitted.                                                          *)
(***************************************************************************)
C14_ExhaustedAfterTwoAdvances ==
    ScenarioA =>
        /\ error = NoError
        /\ batch_state.vector_qual_result.bits = << FALSE, FALSE, TRUE >>
        /\ batch_state.next_batch_row \in {0, 3}
        /\ batch_state.next_batch_row = 0 => emitted = << >>
        /\ batch_state.next_batch_row = 3 =>
              /\ Len(emitted) = 1
              /\ emitted[1].row = 2
              /\ emitted[1].tuple[1] = Val(7)
              /\ nfiltered1 = 2
              /\ ~Exhausted =>
                    batch_state.decompressed_scan_slot.tts_values[1] = Val(7)
        /\ Exhausted <=> advance_calls >= 2

\* the batch of the scenario has been run to its end
C14_Witness ==
    /\ ScenarioA
    /\ Exhausted
    /\ emitted # << >>

(***************************************************************************)
(* C15: apply_vectorized_agg_optimization returns true exactly when the    *)
(* setting is on, the query has no HAVING, the path is a decompress chunk  *)
(* path, neither it nor its compressed child path is restricted, and the   *)
(* aggregation target is the one expression sum over int4; it then marks   *)
(* the path to aggregate and gives it the aggregation's target; in every   *)
(* other case it returns false.                                            *)
(***************************************************************************)
C15_VectorizedAggIff ==
    planner.called =>
        LET target == planner.aggregation_path.pathtarget
            all == /\ planner.ts_guc_enable_vectorized_aggregation
                   /\ ~planner.root.hasHavingQual
                   /\ planner.path.is_decompress_chunk
                   /\ planner.path.baserestrictinfo = 0
                   /\ planner.path.compressed_path.baserestrictinfo = 0
                   /\ Len(target) = 1
                   /\ target[1] = Aggref("F_SUM_INT4")
        IN  /\ planner.result <=> all
            /\ planner.result =>
                  /\ planner.path_after.perform_vectorized_aggregation
                  /\ planner.path_after.pathtarget = target
                  /\ planner.path_after =
                         [planner.path EXCEPT
                             !.perform_vectorized_aggregation = TRUE,
                             !.pathtarget = target]

\* a call that returned true and changed the path
C15_Witness ==
    /\ planner.called
    /\ planner.result
    /\ planner.path_after.perform_vectorized_aggregation
    /\ planner.path_after.pathtarget # planner.path.pathtarget

(***************************************************************************)
(* The states of a batch state between the calls.                          *)
(***************************************************************************)
\* the state of a batch state: Failed after an error has aborted the scan,
\* None when it is none of the others
PhaseOf(bs, err, loaded) ==
    IF err # NoError THEN "Failed"
    ELSE IF loaded = 0 THEN "Empty"
    ELSE IF bs.next_batch_row = 0 /\ TupIsNull(bs.decompressed_scan_slot)
    THEN "Loaded"
    ELSE IF /\ ~TupIsNull(bs.decompressed_scan_slot)
            /\ bs.next_batch_row \in 1 .. bs.total_batch_rows
    THEN "Advancing"
    ELSE IF /\ TupIsNull(bs.decompressed_scan_slot)
            /\ bs.next_batch_row = bs.total_batch_rows
    THEN "Exhausted"
    ELSE "None"

Phase == PhaseOf(batch_state, error, batches_loaded)

\* the moves of one call: forward along Empty, Loaded, Advancing,
\* Exhausted and back to Loaded; a call that finds no row passes from
\* Loaded to Exhausted at once, and any call may fail
PhaseMoves ==
    {<< "Empty", "Loaded" >>, << "Loaded", "Loaded" >>,
     << "Loaded", "Advancing" >>, << "Loaded", "Exhausted" >>,
     << "Advancing", "Advancing" >>, << "Advancing", "Exhausted" >>,
     << "Exhausted", "Exhausted" >>, << "Exhausted", "Loaded" >>,
     << "Empty", "Failed" >>, << "Loaded", "Failed" >>,
     << "Advancing", "Failed" >>, << "Exhausted", "Failed" >>}

PhaseStep ==
    LET from == Phase
        to == PhaseOf(batch_state', error', batches_loaded')
    IN  /\ << from, to >> \in PhaseMoves
        \* a batch is loaded only into an empty output slot
        /\ batches_loaded' # batches_loaded =>
              /\ from \in {"Empty", "Loaded", "Exhausted"}
              /\ TupIsNull(batch_state.decompressed_scan_slot)
              /\ to \in {"Loaded", "Failed"}
        \* within a batch the cursor never goes back
        /\ (batches_loaded' = batches_loaded /\ to # "Failed") =>
              batch_state'.next_batch_row >= batch_state.next_batch_row

NotCorrupt(tuple) == IteratorsInSync(tuple) /\ BulkInSync(tuple)

\* a call of compressed_batch_save_first_tuple
SaveFirstStep == ~saved_first /\ saved_first'

\* what a caller sees of the output slot
SlotView(slot) ==
    IF TupIsNull(slot) THEN << TRUE, EmptySlot.tts_values >>
    ELSE << FALSE, slot.tts_values >>

(***************************************************************************)
(* C17: on a batch whose data is not corrupt a call of                     *)
(* compressed_batch_save_first_tuple leaves the cursor, the output slot,   *)
(* the iterators, the filtered-rows counter and the error as one call of   *)
(* compressed_batch_advance on the same freshly loaded batch leaves them;  *)
(* it differs in the copy of the row of cursor 0 in the caller's slot.     *)
(***************************************************************************)
C17_SaveFirstTupleIsAdvance ==
    [][(SaveFirstStep /\ NotCorrupt(batch_state.compressed_slot)) =>
          LET a == compressed_batch_advance(chunk_state, Working)
          IN  /\ error' = a.err
              /\ batch_state'.next_batch_row = a.bs.next_batch_row
              /\ batch_state'.total_batch_rows = a.bs.total_batch_rows
              /\ SlotView(batch_state'.decompressed_scan_slot) =
                     SlotView(a.bs.decompressed_scan_slot)
              /\ batch_state'.compressed_columns = a.bs.compressed_columns
              /\ batch_state'.vector_qual_result = a.bs.vector_qual_result
              /\ nfiltered1' = a.nfiltered1
              /\ emitted' = a.emitted
              /\ pulls' = a.pulls
              /\ a.first = first_tuple_slot
              /\ error' = NoError =>
                    first_tuple_slot' =
                        [empty |-> FALSE,
                         tts_values |-> OracleTuple(chunk_state.reverse,
                                                    batch_state.compressed_slot, 0)]
      ]_vars

\* a batch with an iterator column whose first row the bitmap excludes was
\* started by save_first_tuple, which has passed a second row as well
C17_Witness ==
    /\ LoadedOK
    /\ saved_first
    /\ advance_calls = 0
    /\ NotCorrupt(batch_state.compressed_slot)
    /\ IteratorColumns(batch_state.compressed_slot) # {}
    /\ ~BitmapBit(0)
    /\ batch_state.next_batch_row >= 2

(***************************************************************************)
(* The outcomes of a call of compressed_batch_advance.                     *)
(***************************************************************************)
\* line 637-638: the call returns with a row that passes the quals
OutcomeRow ==
    /\ error' = NoError
    /\ ~TupIsNull(batch_state'.decompressed_scan_slot)
    /\ Len(emitted') = Len(emitted) + 1
    /\ batch_state'.next_batch_row <= batch_state'.total_batch_rows

\* line 660: the call returns with the slot cleared at the end of the batch
OutcomeExhausted ==
    /\ error' = NoError
    /\ TupIsNull(batch_state'.decompressed_scan_slot)
    /\ emitted' = emitted
    /\ batch_state'.next_batch_row = batch_state'.total_batch_rows

\* an ereport(ERROR) leaves the call
OutcomeError ==
    /\ error' # NoError
    /\ emitted' = emitted

ExactlyOneOutcome ==
    /\ OutcomeRow \/ OutcomeExhausted \/ OutcomeError
    /\ ~(OutcomeRow /\ OutcomeExhausted)
    /\ ~(OutcomeRow /\ OutcomeError)
    /\ ~(OutcomeExhausted /\ OutcomeError)

\* the calls a batch has had that look for a passing row
RowCalls == advance_calls + (IF saved_first THEN 1 ELSE 0)

ExhaustedWithinBound ==
    (LoadedOK /\ batch_state.total_batch_rows > 0
              /\ RowCalls >= batch_state.total_batch_rows + 1) => Exhausted

(***************************************************************************)
(* C18 as stated: every call of compressed_batch_advance has exactly one   *)
(* of the three outcomes, the cursor strictly increases in every call that *)
(* starts with the cursor below total_batch_rows, and a batch is exhausted *)
(* after at most total_batch_rows + 1 calls.                               *)
(***************************************************************************)
C18_CursorIncreasesInEveryCall ==
    /\ [][Advance =>
            /\ ExactlyOneOutcome
            /\ batch_state.next_batch_row < batch_state.total_batch_rows =>
                  batch_state'.next_batch_row > batch_state.next_batch_row
         ]_vars
    /\ []ExhaustedWithinBound

(***************************************************************************)
(* C18: every call of compressed_batch_advance has exactly one of the      *)
(* three outcomes; the cursor strictly increases in every call that starts *)
(* with the cursor below total_batch_rows and does not end in an error,    *)
(* and never decreases in one that does; a batch without error is          *)
(* exhausted after at most total_batch_rows + 1 calls.                     *)
(***************************************************************************)
C18_CursorIncreasesInReturningCalls ==
    /\ [][Advance =>
            /\ ExactlyOneOutcome
            /\ batch_state'.total_batch_rows = batch_state.total_batch_rows
            /\ batch_state'.next_batch_row >= batch_state.next_batch_row
            /\ (/\ batch_state.next_batch_row < batch_state.total_batch_rows
                /\ error' = NoError) =>
                  batch_state'.next_batch_row > batch_state.next_batch_row
         ]_vars
    /\ []ExhaustedWithinBound

\* a batch of which every row passed is exhausted by the call after the
\* last row, which is call total_batch_rows + 1
C18_Witness ==
    /\ Exhausted
    /\ ~saved_first
    /\ batch_state.total_batch_rows = MaxRows
    /\ Len(emitted) = batch_state.total_batch_rows
    /\ advance_calls = batch_state.total_batch_rows + 1

\* the bound is reached: a batch can be short of exhaustion after
\* total_batch_rows calls
ExhaustedWithinTotalRowsCalls ==
    (LoadedOK /\ batch_state.total_batch_rows > 0
              /\ RowCalls >= batch_state.total_batch_rows) => Exhausted

(***************************************************************************)
(* The filtered-rows statistic.                                            *)
(***************************************************************************)
\* the rows at cursor positions lo .. hi - 1 that the bitmap or the row
\* filter rejects
RejectedIn(lo, hi) == {c \in lo .. hi - 1 : ~RowPasses(c)}

\* the rows counted as filtered for the batch in the batch state
FilteredOfBatch == nfiltered1 - nfiltered1_at_load

\* a call that looks for a passing row counts every rejected row it passes
\* over once, whether it returns or ends in an error at a later row; the
\* row at which compressed_batch_advance raises an error is one that the
\* bitmap lets through and the call was building
RejectedCountedOnce ==
    (Advance \/ SaveFirstTuple) =>
        /\ nfiltered1' - nfiltered1 =
               Cardinality(RejectedIn(batch_state.next_batch_row,
                                      batch_state'.next_batch_row))
        /\ nfiltered1' - nfiltered1 =
               (batch_state'.next_batch_row - batch_state.next_batch_row)
                   - (Len(emitted') - Len(emitted))
        /\ (/\ Advance
            /\ error' # NoError
            /\ batch_state'.next_batch_row < batch_state.total_batch_rows)
               => BitmapBit(batch_state'.next_batch_row)

(***************************************************************************)
(* C19: every row rejected by the bitmap or by the row filter adds one to  *)
(* the filtered-rows counter and raises no error; when a batch is          *)
(* exhausted, the rows emitted and the rows counted as filtered for it add *)
(* up to total_batch_rows, also for a batch started by save_first_tuple.   *)
(***************************************************************************)
C19_FilteredRowsCounted ==
    /\ [][RejectedCountedOnce]_vars
    /\ [](LoadedOK =>
             FilteredOfBatch = Cardinality(RejectedIn(0, batch_state.next_batch_row)))
    /\ [](Exhausted =>
             Len(emitted) + FilteredOfBatch = batch_state.total_batch_rows)

\* the second batch of a scan, started by save_first_tuple and exhausted,
\* with a row rejected by the row filter, after a first batch with rejected
\* rows
C19_Witness ==
    /\ Exhausted
    /\ saved_first
    /\ batches_loaded = 2
    /\ nfiltered1_at_load > 0
    /\ FilteredOfBatch > 0
    /\ \E c \in 0 .. batch_state.total_batch_rows - 1 : BitmapBit(c) /\ ~RowPasses(c)

\* an exhausted batch with more than one row, of which the bitmap rejected
\* one and the row filter another
FilteredBothWays ==
    /\ Exhausted
    /\ FilteredOfBatch = 2
    /\ \E c \in 0 .. batch_state.total_batch_rows - 1 : ~BitmapBit(c)
    /\ \E c \in 0 .. batch_state.total_batch_rows - 1 : BitmapBit(c) /\ ~RowPasses(c)

(***************************************************************************)
(* Rows that compressed_batch_advance passes over because the bitmap       *)
(* excludes them (lines 606-622).                                          *)
(***************************************************************************)
\* a call of compressed_batch_advance that starts inside the batch, finds
\* the bitmap bit of every remaining row clear and returns at the end of
\* the batch: all it has done to the rows is skip them
SkipsToTheEnd ==
    /\ Advance
    /\ error' = NoError
    /\ batch_state.next_batch_row < batch_state.total_batch_rows
    /\ \A c \in batch_state.next_batch_row .. batch_state.total_batch_rows - 1 :
           ~BitmapBit(c)

RowsSkipped == batch_state.total_batch_rows - batch_state.next_batch_row

\* the slot's values and null flags, the row filter and the bulk columns
\* are left alone, each iterator has one try_next call for each row
SkipFrame ==
    /\ batch_state'.decompressed_scan_slot.tts_values =
           batch_state.decompressed_scan_slot.tts_values
    /\ qual_evals' = qual_evals
    /\ emitted' = emitted
    /\ \A a \in IteratorColumns(batch_state.compressed_slot) :
           pulls'[ColumnIndexOf(a)] = pulls[ColumnIndexOf(a)] + RowsSkipped
    /\ \A a \in (1 .. 2) \ IteratorColumns(batch_state.compressed_slot) :
           /\ pulls'[ColumnIndexOf(a)] = pulls[ColumnIndexOf(a)]
           /\ batch_state'.compressed_columns[ColumnIndexOf(a)] =
                  batch_state.compressed_columns[ColumnIndexOf(a)]

\* each iterator has given one value for each row skipped
SkipAdvancesByOneValue ==
    \A a \in IteratorColumns(batch_state.compressed_slot) :
        LET i == ColumnIndexOf(a)
        IN  values_pulled(batch_state'.compressed_columns[i].iterator) =
                values_pulled(batch_state.compressed_columns[i].iterator) + RowsSkipped

\* the row filter has been evaluated for the rows passed that the bitmap
\* lets through, and for no other
QualEvaluatedForBitmapRows ==
    LoadedOK =>
        qual_evals =
            IF chunk_state.qual.present
            THEN Cardinality({c \in 0 .. batch_state.next_batch_row - 1 : BitmapBit(c)})
            ELSE 0

(***************************************************************************)
(* C20: a row that compressed_batch_advance finds excluded by the bitmap   *)
(* leaves the values and null flags of the output slot as they were, the   *)
(* row filter is not evaluated for it, every iterator column is advanced   *)
(* by exactly one value and the bulk columns are not touched.              *)
(***************************************************************************)
C20_SkippedRowFrame ==
    /\ [][SkipsToTheEnd => (SkipFrame /\ SkipAdvancesByOneValue)]_vars
    /\ []QualEvaluatedForBitmapRows

(***************************************************************************)
(* What holds of C20 on every batch: the frame of a skipped row and one    *)
(* try_next call on each iterator; the call gives a value when the         *)
(* iterator holds as many values as the batch has rows.                    *)
(***************************************************************************)
SkippedRowFrameInSync ==
    /\ [][SkipsToTheEnd =>
            /\ SkipFrame
            /\ IteratorsInSync(batch_state.compressed_slot) => SkipAdvancesByOneValue
         ]_vars
    /\ []QualEvaluatedForBitmapRows

\* a batch with an iterator column in step, a bulk column and a row filter,
\* of which a call has skipped the last rows after a row was emitted
SkippedRowsAfterEmittedRow ==
    /\ Exhausted
    /\ chunk_state.qual.present
    /\ IteratorsInSync(batch_state.compressed_slot)
    /\ IteratorColumns(batch_state.compressed_slot) # {}
    /\ BulkColumns(batch_state.compressed_slot) # {}
    /\ Len(emitted) = 1
    /\ ~BitmapBit(batch_state.total_batch_rows - 1)
    /\ ~batch_state.decompressed_scan_slot.tts_values[1].isnull

(***************************************************************************)
(* The output positions that a batch sets once, in the load.               *)
(***************************************************************************)
\* the output attributes of the columns without data in the batch, which
\* take their default value, and of the segmentby column
ConstantAttnos(tuple) ==
    {a \in 1 .. 2 : ColumnForm(tuple, a) = "default"} \cup {SegmentbyColumn.output_attno}

\* what the load writes to such a position: getmissingattr of the attribute
\* (lines 343-346), the segmentby value of the compressed tuple (lines 414-417)
ValueSetAtLoad(tuple, a) ==
    IF a = SegmentbyColumn.output_attno THEN tuple.segmentby
    ELSE chunk_state.missing[a]

(***************************************************************************)
(* C21: building a row writes the output positions of the iterator and     *)
(* bulk columns only; the positions of the default-value columns and of    *)
(* the segmentby column hold, from the load on, in every call and in every *)
(* row the batch emits, the value the load has written.                    *)
(***************************************************************************)
C21_ConstantPositionsWrittenOnce ==
    /\ [](LoadedOK =>
            \A a \in ConstantAttnos(batch_state.compressed_slot) :
                /\ batch_state.decompressed_scan_slot.tts_values[a] =
                       ValueSetAtLoad(batch_state.compressed_slot, a)
                /\ \A j \in 1 .. Len(emitted) :
                       emitted[j].tuple[a] =
                           ValueSetAtLoad(batch_state.compressed_slot, a))
    /\ [][(Advance \/ SaveFirstTuple) =>
            \A a \in ConstantAttnos(batch_state.compressed_slot) :
                batch_state'.decompressed_scan_slot.tts_values[a] =
                    batch_state.decompressed_scan_slot.tts_values[a]
         ]_vars

\* the second row of a batch is in the slot; column 1 has no data and takes
\* a default value that is not null, column 2 has data, and the segmentby
\* value is not null
C21_Witness ==
    /\ LoadedOK
    /\ Len(emitted) = 2
    /\ ~TupIsNull(batch_state.decompressed_scan_slot)
    /\ ColumnForm(batch_state.compressed_slot, 1) = "default"
    /\ ColumnForm(batch_state.compressed_slot, 2) # "default"
    /\ ~chunk_state.missing[1].isnull
    /\ ~batch_state.compressed_slot.segmentby.isnull
    /\ emitted[1].tuple[2] # emitted[2].tuple[2]

(***************************************************************************)
(* C22: within a batch the output slot is not cleared between rows.  A     *)
(* call that returns a row leaves the slot filled; a filled slot stays     *)
(* filled in every call but the one that ends the batch, which leaves the  *)
(* cursor at total_batch_rows and returns no row; no other step of the     *)
(* scan empties a filled slot.                                             *)
(***************************************************************************)
C22_SlotClearedOnlyAtExhaustion ==
    [][LET filled  == ~TupIsNull(batch_state.decompressed_scan_slot)
           filled1 == ~TupIsNull(batch_state'.decompressed_scan_slot)
       IN  /\ (filled /\ ~filled1) =>
                 /\ Advance
                 /\ error' = NoError
                 /\ batch_state'.next_batch_row = batch_state'.total_batch_rows
                 /\ emitted' = emitted
           /\ (filled /\ Advance /\ error' = NoError
                      /\ Len(emitted') = Len(emitted) + 1) => filled1
           /\ (filled /\ Advance /\ error' # NoError) => filled1
           /\ ((Advance \/ SaveFirstTuple) /\ Len(emitted') = Len(emitted) + 1)
                 => filled1
      ]_vars

\* a batch of three rows has emitted its first and its last row, with the
\* row between them built in the slot and rejected by the row filter, and
\* the call after the last row has cleared the slot
C22_Witness ==
    /\ Exhausted
    /\ ~saved_first
    /\ batch_state.total_batch_rows = 3
    /\ Len(emitted) = 2
    /\ emitted[1].row = 0
    /\ emitted[2].row = 2
    /\ BitmapBit(1)
    /\ advance_calls = 3

(***************************************************************************)
(* The form of a compressed column in the batch state.                     *)
(***************************************************************************)
\* iterator set, no array and no value width
IteratorForm(column_values) ==
    /\ ~column_values.iterator.isnull
    /\ column_values.arrow.isnull
    /\ column_values.value_bytes = -1

\* array with its buffers and a positive value width set, no iterator
BulkForm(column_values) ==
    /\ ~column_values.arrow.isnull
    /\ column_values.value_bytes > 0
    /\ column_values.iterator.isnull

\* neither set: the column has its default value in the output slot
ConstantForm(cs, bs, column_values) ==
    /\ column_values.iterator.isnull
    /\ column_values.arrow.isnull
    /\ column_values.value_bytes = -1
    /\ bs.decompressed_scan_slot.tts_values[column_values.output_attno] =
           getmissingattr(cs, column_values.output_attno)

(***************************************************************************)
(* C23: after a load without error, and through the calls that follow it,  *)
(* every compressed column of the batch state is in exactly one of the     *)
(* iterator form, the bulk form and the constant form, the one its         *)
(* compressed value and the scan decide; none has an iterator and an array.*)
(***************************************************************************)
C23_ColumnInOneForm ==
    LoadedOK =>
        \A i \in 1 .. num_compressed_columns(chunk_state) :
            LET column_values == batch_state.compressed_columns[i]
                it == IteratorForm(column_values)
                bu == BulkForm(column_values)
                co == ConstantForm(chunk_state, batch_state, column_values)
                form == ColumnForm(batch_state.compressed_slot,
                                   column_values.output_attno)
            IN  /\ it \/ bu \/ co
                /\ ~(it /\ bu) /\ ~(it /\ co) /\ ~(bu /\ co)
                /\ ~(~column_values.iterator.isnull /\ ~column_values.arrow.isnull)
                /\ it <=> form = "iterator"
                /\ bu <=> form = "bulk"
                /\ co <=> form = "default"

\* the second batch of a scan is loaded with column 1 in iterator form, after
\* a batch that had rows rejected
C23_Witness ==
    /\ LoadedOK
    /\ batches_loaded = 2
    /\ IteratorForm(batch_state.compressed_columns[ColumnIndexOf(1)])
    /\ batch_state.next_batch_row = 0
    /\ nfiltered1 > 0

\* the three forms occur together with others in one batch
ColumnFormsMixed ==
    /\ LoadedOK
    /\ \E i, j \in 1 .. 2 :
          /\ BulkForm(batch_state.compressed_columns[i])
          /\ IteratorForm(batch_state.compressed_columns[j])
    /\ batch_state.next_batch_row > 0

(***************************************************************************)
(* Vectorized predicates on a column whose default value is null.          *)
(***************************************************************************)
\* the predicates of the plan on a column without data whose default value
\* is null
NullDefaultPredicates(tuple) ==
    {k \in DefaultPredicates(tuple) :
        getmissingattr(chunk_state, chunk_state.vectorized_quals[k].varattno).isnull}

\* C24 as stated: the predicate function is never called for a predicate on
\* a default-value column whose default value is null
C24_NullDefaultPredicateNotInvoked ==
    LoadedOK =>
        \A j \in 1 .. Len(predicate_calls) :
            ~(predicate_calls[j].isdefault /\ predicate_calls[j].isnull)

(***************************************************************************)
(* C24, amended: the load of a batch calls the predicate function once for *)
(* every predicate of the plan, also for one on a default-value column     *)
(* whose default value is null: it is called on an array of one row whose  *)
(* row is marked invalid.  The null that prevents a call is that of the    *)
(* predicate's constant, with which the load fails before the call.        *)
(***************************************************************************)
C24_NullDefaultPredicateInvoked ==
    /\ LoadedOK =>
          /\ Len(predicate_calls) = Len(chunk_state.vectorized_quals)
          /\ \A k \in 1 .. Len(predicate_calls) :
                /\ predicate_calls[k].varattno =
                       chunk_state.vectorized_quals[k].varattno
                /\ ~chunk_state.vectorized_quals[k].constisnull
                /\ (predicate_calls[k].isdefault /\ predicate_calls[k].isnull)
                       <=> k \in NullDefaultPredicates(batch_state.compressed_slot)
                /\ predicate_calls[k].isdefault => predicate_calls[k].length = 1
    /\ (batches_loaded > 0 /\ error = NullConstant) =>
          /\ Len(predicate_calls) < Len(chunk_state.vectorized_quals)
          /\ chunk_state.vectorized_quals[Len(predicate_calls) + 1].constisnull

\* a batch is loaded whose column 1 has no data and a null default value,
\* under a plan of two predicates of which the second is on column 1, and
\* has been run to its end
C24_Witness ==
    /\ Exhausted
    /\ batch_state.total_batch_rows > 0
    /\ Len(predicate_calls) = 2
    /\ NullDefaultPredicates(batch_state.compressed_slot) = {2}
    /\ predicate_calls[2].isnull
    /\ ~predicate_calls[1].isdefault

(***************************************************************************)
(* C25: on a batch with a positive row count the cursor stays within       *)
(* 0 .. total_batch_rows through the load and every call of advance and    *)
(* save_first_tuple; compressed_batch_make_next_tuple and                  *)
(* compressed_batch_vector_qual are entered with the cursor below          *)
(* total_batch_rows only, so their assertions hold, and every row at which *)
(* a bulk array or the bitmap is read is in 0 .. total_batch_rows - 1.     *)
(***************************************************************************)
C25_CursorAndIndexesInBatch ==
    (batches_loaded > 0 /\ batch_state.total_batch_rows > 0) =>
        /\ 0 <= batch_state.next_batch_row
        /\ batch_state.next_batch_row <= batch_state.total_batch_rows
        /\ ~probe.failed
        /\ \A r \in probe.arrow_rows \cup probe.bitmap_rows :
               0 <= r /\ r < batch_state.total_batch_rows
        /\ error = NoError =>
              /\ probe.bitmap_rows =
                    IF batch_state.vector_qual_result.isnull THEN {}
                    ELSE {LogicalRowIn(chunk_state.reverse,
                                       batch_state.total_batch_rows, c) :
                             c \in 0 .. batch_state.next_batch_row - 1}
              /\ probe.arrow_rows \subseteq
                    {LogicalRowIn(chunk_state.reverse,
                                  batch_state.total_batch_rows, c) :
                        c \in 0 .. batch_state.next_batch_row - 1}

\* a reverse scan has run a batch of the most rows to its end, started by
\* save_first_tuple, with a bitmap and a bulk column read at every row
C25_Witness ==
    /\ Exhausted
    /\ saved_first
    /\ chunk_state.reverse
    /\ batch_state.total_batch_rows = MaxRowsNarrow
    /\ probe.bitmap_rows = 0 .. batch_state.total_batch_rows - 1
    /\ probe.arrow_rows # {}
    /\ 0 \in probe.arrow_rows

(***************************************************************************)
(* C26: a call of compressed_batch_advance on a batch that is exhausted    *)
(* already (cursor at total_batch_rows, output slot empty) and whose data  *)
(* is not corrupt changes nothing: the cursor stays at total_batch_rows,   *)
(* the slot stays empty, no row is emitted, the filtered-rows counter      *)
(* keeps its value and no error is raised; the iterators, the bitmap and   *)
(* the caller's slot are left as they were.                                *)
(***************************************************************************)
C26_AdvanceOnExhaustedBatchIsIdempotent ==
    [][(Exhausted /\ NotCorrupt(batch_state.compressed_slot) /\ Advance) =>
          /\ batch_state'.next_batch_row = batch_state.total_batch_rows
          /\ batch_state'.total_batch_rows = batch_state.total_batch_rows
          /\ TupIsNull(batch_state'.decompressed_scan_slot)
          /\ emitted' = emitted
          /\ nfiltered1' = nfiltered1
          /\ error' = NoError
          /\ batch_state' = batch_state
          /\ first_tuple_slot' = first_tuple_slot
          /\ pulls' = pulls
          /\ qual_evals' = qual_evals
      ]_vars

\* a batch with an iterator column that has emitted a row and rejected
\* another has been advanced once more after the call that exhausted it
C26_Witness ==
    /\ Exhausted
    /\ NotCorrupt(batch_state.compressed_slot)
    /\ IdleCalls = MaxIdleCalls
    /\ IteratorColumns(batch_state.compressed_slot) # {}
    /\ Len(emitted) >= 1
    /\ nfiltered1 > nfiltered1_at_load

====
